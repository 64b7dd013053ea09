--------------------------- MODULE DiscReadsProofs ---------------------------
(***************************************************************************)
(* Proofs about DiscReads, for any slots, requests, KAPCs, events and      *)
(* length of the reader's queue: the contexts are exact, no APC is lost,   *)
(* the jobs are the pending requests, and every step is one that           *)
(* OverlappedReads allows.                                                 *)
(***************************************************************************)
EXTENDS DiscReads, TLAPS, SequenceTheorems, FiniteSetTheorems,
        WellFoundedInduction

-----------------------------------------------------------------------------
(***************************************************************************)
(* The inductive invariant. It is said of any kernel s and reader rd, not  *)
(* of k and reader: the functions of the kernel are composed within a      *)
(* step, and what one hands to the next has to keep it too.                *)
(***************************************************************************)

(* The kernel's record and the reader's.                                   *)
Phases == {"guest", "exit", "leave", "pass", "pick"}
Kernel ==
  [phase : Phases, current : Threads, frame : Contexts, thread : [Threads -> Thread],
   event : [Events -> BOOLEAN], iosb : [Requests -> {"pending", "done"}],
   inserted : [Kapcs -> BOOLEAN], ids : 1..MaxThreadId, polled : Seq(JobOf)]
Readers == [queue : Seq(JobOf), done : Seq(JobOf), busy : 0..DISC_JOBS, posting : BOOLEAN]

(* A thread that can run again; where its code is, as in DiscReads.        *)
Alive == {"ready", "running", "waiting"}
InCode(s) == s.phase \in {"guest", "exit", "leave"}
LiveIn(s, t) == s.current = t /\ InCode(s) /\ s.thread[t].state # "terminated"
ContextIn(s, t) == IF LiveIn(s, t) THEN s.frame ELSE s.thread[t].ctx
QueueSet(s, t) == Range(s.thread[t].queue)

(* Which threads can be in which state.                                    *)
StatesOk(s) ==
  /\ s.phase = "guest" => s.thread[s.current].state = "running"
  /\ InCode(s) => s.thread[s.current].state \in {"running", "waiting", "terminated"}
  /\ ~InCode(s) => s.thread[s.current].state \in {"ready", "waiting", "terminated"}
  /\ \A t \in Threads : t # s.current => s.thread[t].state \in {"free", "ready", "waiting"}

(* Reads complete only while the thread whose context is live runs, or     *)
(* with none live.                                                         *)
LiveRuns(s) == InCode(s) => s.thread[s.current].state = "running"
PollOk(s) == s.polled # << >> => s.phase # "exit" /\ LiveRuns(s)

(* Chains nest.                                                            *)
NestOk(th, place) ==
  /\ Len(th.chains) <= NC_MAX_APC_NEST + 1
  /\ place = At(th.chains, Len(th.chains))
  /\ \A n \in DOMAIN th.chains : th.chains[n].ret = At(th.chains, n - 1)
NestsOk(s) == \A t \in Threads : s.thread[t].state \in Alive => NestOk(s.thread[t], ContextIn(s, t).place)

(* The queues.                                                             *)
NoneMissed(s) == \A t \in Threads :
  s.thread[t].state = "waiting" /\ s.thread[t].wait \in Alertable => ~NcApcPending(s.thread[t])
QueuesOk(s) ==
  /\ \A t \in Threads : IsInjective(s.thread[t].queue)
  /\ \A t \in Threads : \A a \in QueueSet(s, t) \cap Kapcs : s.inserted[a]
  /\ \A t, u \in Threads : t # u => QueueSet(s, t) \cap QueueSet(s, u) = {}

(* Ids are given once, in order, and a free slot has none.                 *)
IdsOk(s) ==
  /\ \A t \in Threads : s.thread[t].id \in 0..s.ids
  /\ \A t \in Threads : s.thread[t].id = 0 <=> s.thread[t].state = "free"
  /\ \A t, u \in Threads : s.thread[t].id = s.thread[u].id /\ s.thread[t].id # 0 => t = u
ThreadsInv(s) == s \in Kernel /\ StatesOk(s) /\ NestsOk(s) /\ NoneMissed(s) /\ QueuesOk(s) /\ IdsOk(s)

(* The jobs.                                                               *)
JobsOf(s, rd) == Range(rd.queue) \cup Range(rd.done) \cup Range(s.polled)
Distinct(q) == \A m, n \in DOMAIN q : q[m].request = q[n].request => m = n
Apart(p, q) == \A i \in Range(p), j \in Range(q) : i.request # j.request
JobsOk(s, rd) ==
  /\ rd \in Readers /\ rd.busy = Len(rd.queue) + Len(rd.done)
  /\ Distinct(rd.queue) /\ Distinct(rd.done) /\ Distinct(s.polled)
  /\ Apart(rd.queue, rd.done) /\ Apart(rd.queue, s.polled) /\ Apart(rd.done, s.polled)
  /\ \A r \in Requests : s.iosb[r] = "pending" <=> \E j \in JobsOf(s, rd) : j.request = r

(* A request under way is in no queue: its call-back is yet to come.       *)
PendingUnqueued(s) ==
  \A r \in Requests : s.iosb[r] = "pending" => \A t \in Threads : r \notin QueueSet(s, t)
Waits(s, t, r) == s.thread[t].state = "waiting" /\ s.thread[t].wait = r

(* A job names the slot of its thread as long as there is one, and who     *)
(* reads through a synchronous handle waits for just that job.             *)
JobThreads(s, J) ==
  \A j \in J :
    /\ j.id <= s.ids
    /\ \A t \in Threads : s.thread[t].id = j.id => t = j.thread
    /\ j.request \in Sync =>
         /\ s.thread[j.thread].id = j.id
         /\ \A t \in Threads : Waits(s, t, j.request) <=> t = j.thread

(* SyncReadReturns, of the threads that can run.                           *)
SyncOk(s) ==
  \A t \in Threads, r \in Requests : s.thread[t].wait = r /\ s.thread[t].state \in Alive =>
    /\ r \in Sync
    /\ IF s.thread[t].state = "waiting" THEN s.iosb[r] = "pending"
       ELSE s.iosb[r] = "done" /\ ContextIn(s, t).eax = "done"
(* The reads, their jobs and those who wait for them.                      *)
ReadsInv(s, rd) ==
  JobsOk(s, rd) /\ PendingUnqueued(s) /\ JobThreads(s, JobsOf(s, rd)) /\ SyncOk(s)

Good(s, rd) == ThreadsInv(s) /\ PollOk(s) /\ ReadsInv(s, rd)
IInv == Good(k, reader) /\ work \in BOOLEAN

-----------------------------------------------------------------------------
(***************************************************************************)
(* Sequences.                                                              *)
(***************************************************************************)
LEMMA AppendIs ==
  ASSUME NEW S, NEW q \in Seq(S), NEW a \in S
  PROVE  /\ Append(q, a) \in Seq(S) /\ Append(q, a) # << >>
         /\ Len(Append(q, a)) = Len(q) + 1
         /\ Range(Append(q, a)) = Range(q) \cup {a}
         /\ IsInjective(q) /\ a \notin Range(q) => IsInjective(Append(q, a))
         /\ Last(Append(q, a)) = a
<1> DEFINE p == Append(q, a)
<1>1. /\ p \in Seq(S) /\ Len(p) = Len(q) + 1 /\ p[Len(q) + 1] = a
      /\ \A i \in 1 .. Len(q) : p[i] = q[i]
      /\ Len(q) \in Nat
  OBVIOUS
<1>2. DOMAIN p = 1 .. (Len(q) + 1) /\ DOMAIN q = 1 .. Len(q)
  BY <1>1
<1>3. Range(p) = Range(q) \cup {a}
  <2>1. DOMAIN p = DOMAIN q \cup {Len(q) + 1}
    BY <1>1, <1>2
  <2>2. \A i \in DOMAIN q : p[i] = q[i]
    BY <1>1, <1>2
  <2> HIDE DEF p
  <2>. QED
    BY <1>1, <2>1, <2>2 DEF Range
<1>4. ASSUME IsInjective(q), a \notin Range(q) PROVE IsInjective(p)
  <2> SUFFICES ASSUME NEW m \in DOMAIN p, NEW n \in DOMAIN p, p[m] = p[n] PROVE m = n
    BY DEF IsInjective
  <2>1. \A i \in 1 .. Len(q) : q[i] # a
    BY <1>2, <1>4 DEF Range
  <2>2. \A i, j \in 1 .. Len(q) : q[i] = q[j] => i = j
    BY <1>2, <1>4 DEF IsInjective
  <2>3. m \in 1 .. Len(q) \/ m = Len(q) + 1
    BY <1>1, <1>2
  <2>4. n \in 1 .. Len(q) \/ n = Len(q) + 1
    BY <1>1, <1>2
  <2> HIDE DEF p
  <2>. QED
    BY <1>1, <2>1, <2>2, <2>3, <2>4
<1>5. p # << >> /\ Last(p) = a
  BY <1>1 DEF Last
<1>. QED
  BY <1>1, <1>3, <1>4, <1>5

(* What is left of a queue.                                                *)
LEMMA TailIs ==
  ASSUME NEW S, NEW q \in Seq(S), q # << >>
  PROVE  /\ Tail(q) \in Seq(S) /\ Head(q) \in S /\ Head(q) \in Range(q)
         /\ Len(Tail(q)) = Len(q) - 1 /\ Len(q) \in Nat /\ Len(q) >= 1
         /\ Range(q) = Range(Tail(q)) \cup {Head(q)}
         /\ IsInjective(q) => IsInjective(Tail(q)) /\ Head(q) \notin Range(Tail(q))
<1> DEFINE p == Tail(q)
<1>1. /\ p \in Seq(S) /\ Len(p) = Len(q) - 1 /\ Head(q) = q[1] /\ Len(q) \in Nat /\ Len(q) >= 1
      /\ \A i \in 1 .. Len(p) : p[i] = q[i + 1]
  BY HeadTailProperties
<1>2. DOMAIN p = 1 .. (Len(q) - 1) /\ DOMAIN q = 1 .. Len(q)
  BY <1>1
<1>3. Head(q) \in S /\ Head(q) \in Range(q)
  BY <1>1, <1>2 DEF Range
<1>4. Range(q) = Range(p) \cup {Head(q)}
  <2>1. ASSUME NEW i \in DOMAIN q PROVE q[i] \in Range(p) \cup {Head(q)}
    <3>1. CASE i = 1
      BY <1>1, <3>1
    <3>2. CASE i # 1
      <4>1. i - 1 \in 1 .. Len(p) /\ (i - 1) + 1 = i
        BY <1>1, <1>2, <3>2
      <4>2. p[i - 1] = q[i]
        BY <1>1, <4>1
      <4>3. i - 1 \in DOMAIN p
        BY <1>1, <1>2, <4>1
      <4>. QED
        BY <4>2, <4>3 DEF Range
    <3>. QED
      BY <3>1, <3>2
  <2>2. ASSUME NEW i \in DOMAIN p PROVE p[i] \in Range(q)
    <3>1. i \in 1 .. Len(p) /\ i + 1 \in DOMAIN q
      BY <1>1, <1>2
    <3>2. p[i] = q[i + 1]
      BY <1>1, <3>1
    <3>. QED
      BY <3>1, <3>2 DEF Range
  <2> HIDE DEF p
  <2>. QED
    BY <1>3, <2>1, <2>2 DEF Range
<1>5. ASSUME IsInjective(q) PROVE IsInjective(p) /\ Head(q) \notin Range(p)
  <2>1. \A i, j \in 1 .. Len(q) : q[i] = q[j] => i = j
    BY <1>2, <1>5 DEF IsInjective
  <2>2. \A i \in DOMAIN p : i \in 1 .. Len(p) /\ i + 1 \in 1 .. Len(q) /\ i + 1 # 1 /\ p[i] = q[i + 1]
    BY <1>1, <1>2
  <2>3. \A i, j \in DOMAIN p : i + 1 = j + 1 => i = j
    BY <1>2
  <2>4. 1 \in 1 .. Len(q)
    BY <1>1
  <2> HIDE DEF p
  <2>5. IsInjective(p)
    BY <2>1, <2>2, <2>3 DEF IsInjective
  <2>6. \A i \in DOMAIN p : p[i] # q[1]
    BY <2>1, <2>2, <2>4
  <2>. QED
    BY <1>1, <2>5, <2>6 DEF Range
<1>. QED
  BY <1>1, <1>3, <1>4, <1>5

LEMMA EmptyIs ==
  /\ Range(<< >>) = {} /\ IsInjective(<< >>) /\ Distinct(<< >>) /\ Len(<< >>) = 0
  /\ \A S : << >> \in Seq(S)
  BY DEF Range, IsInjective, Distinct

LEMMA RangeIs ==
  ASSUME NEW S, NEW q \in Seq(S)
  PROVE  /\ Range(q) \subseteq S
         /\ \A e : Contains(q, e) <=> e \in Range(q)
         /\ q # << >> <=> Range(q) # {}
<1>1. DOMAIN q = 1 .. Len(q) /\ Len(q) \in Nat /\ \A i \in 1 .. Len(q) : q[i] \in S
  OBVIOUS
<1>2. q # << >> => 1 \in 1 .. Len(q)
  BY <1>1
<1>3. Range(<< >>) = {}
  BY EmptyIs
<1>. QED
  BY <1>1, <1>2, <1>3 DEF Range, Contains

(* The same of the requests of jobs.                                       *)
LEMMA DistinctAppend ==
  ASSUME NEW q \in Seq(JobOf), NEW a \in JobOf, Distinct(q), \A i \in Range(q) : i.request # a.request
  PROVE  Distinct(Append(q, a))
<1> DEFINE p == Append(q, a)
<1>1. /\ p[Len(q) + 1] = a /\ \A i \in 1 .. Len(q) : p[i] = q[i]
      /\ Len(q) \in Nat /\ DOMAIN p = 1 .. (Len(q) + 1) /\ DOMAIN q = 1 .. Len(q)
  OBVIOUS
<1> SUFFICES ASSUME NEW m \in DOMAIN p, NEW n \in DOMAIN p, p[m].request = p[n].request PROVE m = n
  BY DEF Distinct
<1>2. \A i \in 1 .. Len(q) : q[i].request # a.request
  BY <1>1 DEF Range
<1>3. \A i, j \in 1 .. Len(q) : q[i].request = q[j].request => i = j
  BY <1>1 DEF Distinct
<1>4. m \in 1 .. Len(q) \/ m = Len(q) + 1
  BY <1>1
<1>5. n \in 1 .. Len(q) \/ n = Len(q) + 1
  BY <1>1
<1> HIDE DEF p
<1>. QED
  BY <1>1, <1>2, <1>3, <1>4, <1>5

LEMMA DistinctTail ==
  ASSUME NEW q \in Seq(JobOf), q # << >>, Distinct(q)
  PROVE  Distinct(Tail(q)) /\ \A i \in Range(Tail(q)) : i.request # Head(q).request
<1> DEFINE p == Tail(q)
<1>1. /\ p \in Seq(JobOf) /\ Len(p) = Len(q) - 1 /\ Head(q) = q[1] /\ Len(q) \in Nat /\ Len(q) >= 1
      /\ \A i \in 1 .. Len(p) : p[i] = q[i + 1]
  BY HeadTailProperties
<1>2. DOMAIN p = 1 .. (Len(q) - 1) /\ DOMAIN q = 1 .. Len(q)
  BY <1>1
<1>3. \A i, j \in 1 .. Len(q) : q[i].request = q[j].request => i = j
  BY <1>2 DEF Distinct
<1>4. \A i \in DOMAIN p : i \in 1 .. Len(p) /\ i + 1 \in 1 .. Len(q) /\ i + 1 # 1 /\ p[i] = q[i + 1]
  BY <1>1, <1>2
<1>5. \A i, j \in DOMAIN p : i + 1 = j + 1 => i = j
  BY <1>2
<1>6. 1 \in 1 .. Len(q)
  BY <1>1
<1> HIDE DEF p
<1>7. Distinct(p)
  <2> SUFFICES ASSUME NEW m \in DOMAIN p, NEW n \in DOMAIN p, p[m].request = p[n].request PROVE m = n
    BY DEF Distinct
  <2>1. m + 1 \in 1 .. Len(q) /\ n + 1 \in 1 .. Len(q) /\ q[m + 1].request = q[n + 1].request
    BY <1>4
  <2>2. m + 1 = n + 1
    BY <1>3, <2>1
  <2>. QED
    BY <1>5, <2>2
<1>8. \A i \in DOMAIN p : p[i].request # q[1].request
  BY <1>3, <1>4, <1>6
<1>. QED
  BY <1>1, <1>7, <1>8 DEF Range, p

(* In a distinct sequence a request has one job.                           *)
LEMMA DistinctIs ==
  ASSUME NEW q \in Seq(JobOf), Distinct(q), NEW i \in Range(q), NEW j \in Range(q), i.request = j.request
  PROVE  i = j
  BY DEF Distinct, Range

(* There is a first slot: the slots are numbers.                           *)
LEMMA FirstSlotIs ==
  ASSUME NEW S \in SUBSET Nat, S # {}
  PROVE  FirstSlot(S) \in S
<1>1. \E t \in S : \A u \in S : ~ (<< u, t >> \in OpToRel(<, Nat))
  BY NatLessThanWellFounded, WFMin
<1>2. PICK t \in S : \A u \in S : ~ (<< u, t >> \in OpToRel(<, Nat))
  BY <1>1
<1>3. \A u \in S : ~ (u < t)
  BY <1>2 DEF OpToRel
<1>4. \A u \in S : t <= u
  BY <1>3
<1>. QED
  BY <1>4 DEF FirstSlot

-----------------------------------------------------------------------------
(***************************************************************************)
(* A thread's APCs and chains.                                             *)
(***************************************************************************)
LEMMA ThreadIs ==
  ASSUME NEW th \in Thread
  PROVE  /\ th.state \in {"free", "ready", "running", "waiting", "terminated"}
         /\ th.id \in 0..MaxThreadId /\ th.queue \in Seq(Apcs) /\ th.chains \in Seq(Chains)
         /\ th.wait \in Events \cup Requests \cup {"sleep", "nothing"} /\ th.ctx \in Contexts
         /\ Len(th.chains) \in Nat /\ DOMAIN th.chains = 1 .. Len(th.chains)
         /\ \A n \in 1 .. Len(th.chains) : th.chains[n] \in Chains
  BY DEF Thread

LEMMA ConstantsAre ==
  /\ NC_MAX_APC_NEST \in Nat /\ MaxThreadId \in Nat /\ MaxThreadId >= 1
  /\ Title \notin Calls /\ InTitle \in Places /\ Nowhere \in Contexts
  /\ \A c \in Calls : c.stage # 0 /\ c.apc \in Apcs
  /\ \A c \in Chains : c.call \in Calls /\ c.ret \in Places
  /\ \A c \in Contexts : c.place \in Places /\ c.eax \in Statuses
  /\ DISC_JOBS \in Nat /\ Threads # {} /\ FirstSlot(Threads) \in Threads
<1>1. NC_MAX_APC_NEST \in Nat /\ MaxThreadId \in Nat /\ MaxThreadId >= 1
  BY ApcAssumption
<1>2. /\ Title \notin Calls /\ \A c \in Calls : c.stage # 0 /\ c.apc \in Apcs
  BY DEF Title, Calls, Apcs
<1>3. InTitle \in Places /\ Nowhere \in Contexts
  BY <1>1 DEF InTitle, Places, Nowhere, Contexts, Statuses
<1>4. /\ \A c \in Chains : c.call \in Calls /\ c.ret \in Places
      /\ \A c \in Contexts : c.place \in Places /\ c.eax \in Statuses
  BY DEF Chains, Contexts
<1>5. FirstSlot(Threads) \in Threads
  BY FirstSlotIs, ThreadsAssumption
<1>. QED
  BY <1>1, <1>2, <1>3, <1>4, <1>5, DiscReadsAssumption, ThreadsAssumption

(* The first call of an APC.                                               *)
FirstCall(a) == [apc |-> a, stage |-> IF a \in Kapcs THEN 1 ELSE 2]

LEMMA FirstCallIs ==
  ASSUME NEW a \in Apcs
  PROVE  /\ FirstCall(a) \in Calls /\ FirstCall(a) # Title /\ FirstCall(a).apc = a
         /\ FirstCall(a).stage = 1 <=> a \in Kapcs
  BY DEF FirstCall, Calls, Title, Apcs

(* The call after another: the second stage, the first call of the next    *)
(* APC, or none.                                                           *)
LEMMA NextCallIs ==
  ASSUME NEW th \in Thread, NEW last \in Calls \cup {Title}, NEW cleared \in BOOLEAN
  PROVE  LET next == NextCall(th, last, cleared)
         IN \/ /\ last.stage = 1 /\ ~cleared /\ next.queue = th.queue
               /\ next.call \in Calls /\ next.call.stage = 2 /\ next.call # Title
               /\ next.call.apc = last.apc
            \/ /\ last.stage # 1 \/ cleared
               /\ th.queue = << >> /\ next.queue = th.queue /\ next.call = Title
            \/ /\ last.stage # 1 \/ cleared
               /\ th.queue # << >> /\ next.queue = Tail(th.queue)
               /\ next.call = FirstCall(Head(th.queue)) /\ next.call \in Calls /\ next.call # Title
<1>1. th.queue \in Seq(Apcs)
  BY ThreadIs
<1>2. CASE last.stage = 1 /\ ~cleared
  <2>1. last \in Calls
    BY <1>2 DEF Title
  <2>2. last.apc \in Kapcs /\ last = [apc |-> last.apc, stage |-> 1]
    BY <1>2, <2>1 DEF Calls
  <2>3. NextCall(th, last, cleared) = [call |-> [last EXCEPT !.stage = 2], queue |-> th.queue]
    BY <1>2 DEF NextCall
  <2>4. [last EXCEPT !.stage = 2] = [apc |-> last.apc, stage |-> 2]
    BY <2>2
  <2>5. [apc |-> last.apc, stage |-> 2] \in Calls
    BY <2>2 DEF Calls, Apcs
  <2>. QED
    BY <1>2, <2>3, <2>4, <2>5, ConstantsAre
<1>3. CASE ~(last.stage = 1 /\ ~cleared) /\ th.queue = << >>
  BY <1>3 DEF NextCall
<1>4. CASE ~(last.stage = 1 /\ ~cleared) /\ th.queue # << >>
  <2>1. Head(th.queue) \in Apcs
    BY <1>1, <1>4, TailIs
  <2>2. FirstCall(Head(th.queue)) \in Calls /\ FirstCall(Head(th.queue)) # Title
    BY <2>1, FirstCallIs
  <2>3. NextCall(th, last, cleared) = [call |-> FirstCall(Head(th.queue)), queue |-> Tail(th.queue)]
    BY <1>4 DEF NextCall, FirstCall
  <2>. QED
    BY <1>4, <2>2, <2>3
<1>. QED
  BY <1>2, <1>3, <1>4

(* A chain that begins nests, and its routine is the code at the top.      *)
LEMMA ChainsNested ==
  ASSUME NEW chains \in Seq(Chains), NEW c \in Chains, c.ret = At(chains, Len(chains)),
         \A n \in DOMAIN chains : chains[n].ret = At(chains, n - 1)
  PROVE  LET on == Append(chains, c)
         IN /\ on \in Seq(Chains) /\ Len(on) = Len(chains) + 1 /\ Last(on) = c
            /\ [depth |-> c.ret.depth + 1, call |-> c.call] = At(on, Len(on))
            /\ \A n \in DOMAIN on : on[n].ret = At(on, n - 1)
<1> DEFINE on == Append(chains, c)
<1>1. /\ on \in Seq(Chains) /\ Len(on) = Len(chains) + 1 /\ on[Len(on)] = c
      /\ \A n \in 1 .. Len(chains) : on[n] = chains[n]
      /\ Len(chains) \in Nat /\ DOMAIN on = 1 .. Len(on) /\ DOMAIN chains = 1 .. Len(chains)
  OBVIOUS
<1> HIDE DEF on
<1>2. c.ret.depth = Len(chains)
  BY DEF At
<1>3. [depth |-> c.ret.depth + 1, call |-> c.call] = At(on, Len(on))
  BY <1>1, <1>2 DEF At
<1>4. ASSUME NEW n \in DOMAIN on PROVE on[n].ret = At(on, n - 1)
  <2>1. n \in 1 .. Len(on) /\ n - 1 \in 0 .. Len(chains)
    BY <1>1
  <2>2. At(on, n - 1) = At(chains, n - 1)
    <3>1. CASE n - 1 = 0
      BY <3>1 DEF At
    <3>2. CASE n - 1 # 0
      <4>1. on[n - 1] = chains[n - 1]
        BY <1>1, <2>1, <3>2
      <4>. QED
        BY <3>2, <4>1 DEF At
    <3>. QED
      BY <3>1, <3>2
  <2>3. CASE n = Len(on)
    BY <1>1, <2>2, <2>3
  <2>4. CASE n # Len(on)
    <3>1. n \in 1 .. Len(chains)
      BY <1>1, <2>1, <2>4
    <3>. QED
      BY <1>1, <2>2, <3>1
  <2>. QED
    BY <2>3, <2>4
<1>. QED
  BY <1>1, <1>3, <1>4 DEF on, Last

(* A chain that begins on a thread that waits: its first call is the first *)
(* APC queued, which leaves the queue.                                     *)
LEMMA BeginChainIs ==
  ASSUME NEW th \in Thread, NEW place \in Places, NestOk(th, place), NcApcPending(th)
  PROVE  LET on == BeginChain(th, place)
         IN /\ on \in Thread /\ on.state = th.state /\ on.id = th.id /\ on.wait = th.wait /\ on.ctx = th.ctx
            /\ on.queue = Tail(th.queue) /\ th.queue # << >>
            /\ Routine(on) \in Places /\ NestOk(on, Routine(on))
            /\ Last(on.chains).call = FirstCall(Head(th.queue))
<1> DEFINE next == NextCall(th, Title, FALSE)
           c == [call |-> next.call, ret |-> place]
           on == BeginChain(th, place)
<1>1. th.queue # << >> /\ Len(th.chains) <= NC_MAX_APC_NEST
  BY DEF NcApcPending
<1>2. next.queue = Tail(th.queue) /\ next.call = FirstCall(Head(th.queue)) /\ next.call \in Calls
  <2>1. Title.stage # 1 /\ FALSE \in BOOLEAN /\ Title \in Calls \cup {Title}
    BY DEF Title
  <2> HIDE DEF next
  <2>2. \/ Title.stage = 1
        \/ th.queue = << >>
        \/ next.queue = Tail(th.queue) /\ next.call = FirstCall(Head(th.queue)) /\ next.call \in Calls
    BY <2>1, NextCallIs DEF next
  <2>. QED
    BY <1>1, <2>1, <2>2
<1>3. Tail(th.queue) \in Seq(Apcs)
  BY <1>1, ThreadIs, TailIs
<1> HIDE DEF next
<1>4. c \in Chains /\ c.ret = place /\ c.call = next.call
  BY <1>2 DEF Chains
<1> HIDE DEF c
<1>5. /\ th.chains \in Seq(Chains) /\ place = At(th.chains, Len(th.chains))
      /\ \A n \in DOMAIN th.chains : th.chains[n].ret = At(th.chains, n - 1)
  BY ThreadIs DEF NestOk
<1>6. PICK p \in Seq(Chains) : p = Append(th.chains, c)
  BY <1>4, <1>5, AppendIs
<1>7. /\ Len(p) = Len(th.chains) + 1 /\ Last(p) = c
      /\ [depth |-> c.ret.depth + 1, call |-> c.call] = At(p, Len(p))
      /\ \A n \in DOMAIN p : p[n].ret = At(p, n - 1)
  BY <1>4, <1>5, <1>6, ChainsNested
<1>8. on = [th EXCEPT !.queue = next.queue, !.chains = p]
  BY <1>6 DEF BeginChain, next, c
<1>9. PICK q \in Seq(Apcs) : q = next.queue
  BY <1>2, <1>3
<1>10. on = [th EXCEPT !.queue = q, !.chains = p]
  BY <1>8, <1>9
<1> HIDE DEF on
<1>11. /\ on \in Thread /\ on.state = th.state /\ on.id = th.id /\ on.wait = th.wait /\ on.ctx = th.ctx
       /\ on.queue = q /\ on.chains = p
  BY <1>10 DEF Thread
<1>12. Routine(on) = At(p, Len(p))
  BY <1>7, <1>11 DEF Routine
<1>13. Len(th.chains) \in Nat /\ Len(p) <= NC_MAX_APC_NEST + 1
  BY <1>1, <1>5, <1>7, ConstantsAre
<1>14. NestOk(on, Routine(on))
  BY <1>7, <1>11, <1>12, <1>13 DEF NestOk
<1>15. Routine(on) \in Places
  <2>1. Routine(on) = [depth |-> Len(p), call |-> c.call]
    BY <1>7, <1>11, <1>12, <1>13 DEF At, Routine
  <2>2. Len(p) \in 0 .. (NC_MAX_APC_NEST + 1)
    BY <1>6, <1>13, ConstantsAre
  <2>. QED
    BY <1>2, <1>4, <2>1, <2>2 DEF Places
<1>16. Last(on.chains).call = FirstCall(Head(th.queue))
  BY <1>2, <1>4, <1>7, <1>11
<1>. QED
  BY <1>1, <1>2, <1>9, <1>11, <1>14, <1>15, <1>16 DEF on

(* The chain that ends returns where the one under it waits.               *)
LEMMA FrontNested ==
  ASSUME NEW chains \in Seq(Chains), chains # << >>,
         \A n \in DOMAIN chains : chains[n].ret = At(chains, n - 1)
  PROVE  LET on == Front(chains)
         IN /\ on \in Seq(Chains) /\ Len(on) = Len(chains) - 1 /\ Len(on) \in Nat
            /\ Last(chains).ret = At(on, Len(on))
            /\ \A n \in DOMAIN on : on[n].ret = At(on, n - 1)
<1> DEFINE on == Front(chains)
<1>1. Len(chains) \in Nat /\ Len(chains) >= 1 /\ DOMAIN chains = 1 .. Len(chains)
  OBVIOUS
<1>2. /\ on \in Seq(Chains) /\ Len(on) = Len(chains) - 1
      /\ \A n \in 1 .. Len(on) : on[n] = chains[n]
  <2>1. 1 \in 1 .. Len(chains) + 1 /\ Len(chains) - 1 \in 1 - 1 .. Len(chains)
    BY <1>1
  <2>2. \A n \in 1 .. Len(chains) - 1 : chains[n] \in Chains
    BY <1>1
  <2>. QED
    BY <1>1, <2>1, <2>2 DEF Front
<1>3. DOMAIN on = 1 .. Len(on) /\ Len(on) \in Nat
  BY <1>1, <1>2
<1> HIDE DEF on
<1>4. \A n \in 0 .. Len(on) : At(on, n) = At(chains, n)
  <2> TAKE n \in 0 .. Len(on)
  <2>1. CASE n = 0
    BY <2>1 DEF At
  <2>2. CASE n # 0
    <3>1. n \in 1 .. Len(on)
      BY <1>3, <2>2
    <3>. QED
      BY <1>2, <3>1, <2>2 DEF At
  <2>. QED
    BY <2>1, <2>2
<1>5. Last(chains).ret = At(on, Len(on))
  BY <1>1, <1>2, <1>3, <1>4 DEF Last
<1>6. \A n \in DOMAIN on : on[n].ret = At(on, n - 1)
  <2> TAKE n \in DOMAIN on
  <2>1. n - 1 \in 0 .. Len(on) /\ n \in DOMAIN chains /\ on[n] = chains[n]
    BY <1>1, <1>2, <1>3
  <2>. QED
    BY <1>4, <2>1
<1>. QED
  BY <1>2, <1>3, <1>5, <1>6 DEF on

(* The last chain goes on to another call.                                 *)
LEMMA ReplacedNested ==
  ASSUME NEW chains \in Seq(Chains), chains # << >>, NEW call \in Calls,
         \A n \in DOMAIN chains : chains[n].ret = At(chains, n - 1)
  PROVE  LET on == [chains EXCEPT ![Len(chains)].call = call]
         IN /\ on \in Seq(Chains) /\ Len(on) = Len(chains) /\ on # << >>
            /\ Last(on).call = call
            /\ [depth |-> Last(on).ret.depth + 1, call |-> Last(on).call] = At(on, Len(on))
            /\ \A n \in DOMAIN on : on[n].ret = At(on, n - 1)
<1> DEFINE e == [chains[Len(chains)] EXCEPT !.call = call]
           on == [chains EXCEPT ![Len(chains)].call = call]
<1>1. PICK m \in Nat : m = Len(chains)
  OBVIOUS
<1>2. m >= 1 /\ DOMAIN chains = 1 .. m /\ m \in 1 .. m
  BY <1>1
<1>3. e \in Chains /\ e.call = call /\ e.ret = chains[m].ret
  <2>1. chains[m] \in Chains
    BY <1>1, <1>2
  <2>. QED
    BY <1>1, <2>1 DEF Chains
<1>4. on = [chains EXCEPT ![Len(chains)] = e]
  OBVIOUS
<1> HIDE DEF e, on
<1>5. /\ on \in Seq(Chains) /\ Len(on) = m
      /\ \A n \in 1 .. m : on[n] = IF n = m THEN e ELSE chains[n]
  BY <1>1, <1>2, <1>3, <1>4, ExceptSeq
<1>6. \A n \in 0 .. (m - 1) : At(on, n) = At(chains, n)
  <2> TAKE n \in 0 .. (m - 1)
  <2>1. CASE n = 0
    BY <2>1 DEF At
  <2>2. CASE n # 0
    <3>1. n \in 1 .. m /\ n # m
      BY <1>2, <2>2
    <3>. QED
      BY <1>5, <3>1, <2>2 DEF At
  <2>. QED
    BY <2>1, <2>2
<1>7. DOMAIN on = 1 .. m
  BY <1>5
<1>8. \A n \in DOMAIN on : on[n].ret = At(on, n - 1)
  <2> TAKE n \in DOMAIN on
  <2>1. n \in 1 .. m /\ n - 1 \in 0 .. (m - 1)
    BY <1>2, <1>7
  <2>2. on[n].ret = chains[n].ret
    BY <1>3, <1>5, <2>1
  <2>. QED
    BY <1>2, <1>6, <2>1, <2>2
<1>9. on[m] = e /\ Last(on) = e /\ on # << >>
  <2>1. on[m] = e
    BY <1>2, <1>5
  <2>2. on # << >>
    BY <1>2, <1>5
  <2>. QED
    BY <1>5, <2>1, <2>2 DEF Last
<1>10. e.ret.depth + 1 = m
  <2>1. e.ret = At(chains, m - 1)
    BY <1>2, <1>3
  <2>. QED
    BY <1>2, <2>1 DEF At
<1>11. [depth |-> e.ret.depth + 1, call |-> e.call] = At(on, Len(on))
  BY <1>2, <1>3, <1>5, <1>9, <1>10 DEF At
<1>. QED
  BY <1>1, <1>3, <1>5, <1>8, <1>9, <1>11 DEF on

(* NcApcReturn: the chains nest still, and at most the first APC leaves    *)
(* the queue.                                                              *)
LEMMA ReturnIs ==
  ASSUME NEW th \in Thread, NEW place \in Places, NestOk(th, place), th.chains # << >>,
         NEW cleared \in BOOLEAN
  PROVE  LET ret == NcApcReturn(th, cleared)
             on == ret.thread
         IN /\ on \in Thread /\ on.state = th.state /\ on.id = th.id /\ on.wait = th.wait /\ on.ctx = th.ctx
            /\ ret.ctx \in Contexts /\ NestOk(on, ret.ctx.place) /\ ret.ctx.eax = "none"
            /\ \/ on.queue = th.queue /\ ret.call.stage # 1
               \/ /\ th.queue # << >> /\ on.queue = Tail(th.queue)
                  /\ ret.call = FirstCall(Head(th.queue))
<1> DEFINE chain == Last(th.chains)
           next == NextCall(th, chain.call, cleared)
           ret == NcApcReturn(th, cleared)
<1>1. /\ th.chains \in Seq(Chains) /\ place = At(th.chains, Len(th.chains))
      /\ \A n \in DOMAIN th.chains : th.chains[n].ret = At(th.chains, n - 1)
      /\ Len(th.chains) \in Nat /\ Len(th.chains) >= 1 /\ th.queue \in Seq(Apcs)
      /\ Len(th.chains) <= NC_MAX_APC_NEST + 1
  BY ThreadIs DEF NestOk
<1>2. chain \in Chains /\ chain.call \in Calls
  BY <1>1, ConstantsAre DEF Last
<1> HIDE DEF chain
<1>3. \/ next.queue = th.queue /\ next.call \in Calls /\ next.call.stage = 2 /\ next.call # Title
      \/ next.queue = th.queue /\ next.call = Title
      \/ /\ th.queue # << >> /\ next.queue = Tail(th.queue) /\ next.call = FirstCall(Head(th.queue))
         /\ next.call \in Calls /\ next.call # Title
  BY <1>2, NextCallIs
<1> HIDE DEF next
<1>4. CASE next.call = Title
  <2> DEFINE p == Front(th.chains)
             on == [th EXCEPT !.chains = Front(@)]
             ctx == [place |-> chain.ret, eax |-> "none"]
  <2>1. /\ p \in Seq(Chains) /\ Len(p) = Len(th.chains) - 1 /\ Len(p) \in Nat
        /\ chain.ret = At(p, Len(p)) /\ \A n \in DOMAIN p : p[n].ret = At(p, n - 1)
    BY <1>1, FrontNested DEF chain
  <2>2. ret = [thread |-> on, call |-> Title, ctx |-> ctx]
    BY <1>4 DEF NcApcReturn, next, chain
  <2>3. on = [th EXCEPT !.chains = p]
    OBVIOUS
  <2> HIDE DEF on, p
  <2>4. /\ on \in Thread /\ on.state = th.state /\ on.id = th.id /\ on.wait = th.wait /\ on.ctx = th.ctx
        /\ on.queue = th.queue /\ on.chains = p
    BY <2>1, <2>3 DEF Thread
  <2>5. ctx \in Contexts /\ ctx.place = chain.ret /\ ctx.eax = "none"
    BY <1>2, ConstantsAre DEF Contexts, Statuses
  <2> HIDE DEF ctx
  <2>6. NestOk(on, ctx.place)
    BY <1>1, <2>1, <2>4, <2>5, ConstantsAre DEF NestOk
  <2>7. ret.thread = on /\ ret.call = Title /\ ret.ctx = ctx
    BY <2>2
  <2> HIDE DEF ret
  <2>8. Title.stage # 1
    BY DEF Title
  <2>. QED
    BY <2>4, <2>5, <2>6, <2>7, <2>8 DEF ret
<1>5. CASE next.call # Title
  <2> DEFINE p == [th.chains EXCEPT ![Len(th.chains)].call = next.call]
             on == [th EXCEPT !.queue = next.queue, !.chains[Len(th.chains)].call = next.call]
             ctx == [place |-> Routine(on), eax |-> "none"]
  <2>1. next.call \in Calls
    BY <1>3, <1>5
  <2>2. /\ p \in Seq(Chains) /\ Len(p) = Len(th.chains) /\ p # << >> /\ Last(p).call = next.call
        /\ [depth |-> Last(p).ret.depth + 1, call |-> Last(p).call] = At(p, Len(p))
        /\ \A n \in DOMAIN p : p[n].ret = At(p, n - 1)
    BY <1>1, <2>1, ReplacedNested
  <2>3. ret = [thread |-> on, call |-> next.call, ctx |-> ctx]
    BY <1>5 DEF NcApcReturn, next, chain
  <2>4. on = [th EXCEPT !.queue = next.queue, !.chains = p]
    OBVIOUS
  <2>5. next.queue \in Seq(Apcs)
    <3>1. th.queue # << >> => Tail(th.queue) \in Seq(Apcs)
      BY <1>1, TailIs
    <3>. QED
      BY <1>1, <1>3, <3>1
  <2> HIDE DEF on, p
  <2>6. /\ on \in Thread /\ on.state = th.state /\ on.id = th.id /\ on.wait = th.wait /\ on.ctx = th.ctx
        /\ on.queue = next.queue /\ on.chains = p
    BY <2>2, <2>4, <2>5 DEF Thread
  <2>7. Routine(on) = At(p, Len(p))
    BY <2>2, <2>6 DEF Routine
  <2>8. NestOk(on, Routine(on))
    BY <1>1, <2>2, <2>6, <2>7 DEF NestOk
  <2>9. Routine(on) \in Places
    <3>1. Routine(on) = [depth |-> Len(p), call |-> Last(p).call]
      BY <1>1, <2>2, <2>7 DEF At
    <3>2. Len(p) \in 0 .. (NC_MAX_APC_NEST + 1)
      BY <1>1, <2>2, ConstantsAre
    <3>. QED
      BY <2>1, <2>2, <3>1, <3>2 DEF Places
  <2>10. ctx \in Contexts /\ ctx.place = Routine(on) /\ ctx.eax = "none"
    BY <2>9 DEF Contexts, Statuses
  <2> HIDE DEF ctx
  <2>11. ret.thread = on /\ ret.call = next.call /\ ret.ctx = ctx
    BY <2>3
  <2> HIDE DEF ret
  <2>12. \/ on.queue = th.queue /\ ret.call.stage # 1
         \/ /\ th.queue # << >> /\ on.queue = Tail(th.queue)
            /\ ret.call = FirstCall(Head(th.queue))
    BY <1>3, <1>5, <2>6, <2>11
  <2>. QED
    BY <2>6, <2>8, <2>10, <2>11, <2>12 DEF ret
<1>. QED
  BY <1>4, <1>5

-----------------------------------------------------------------------------
(***************************************************************************)
(* The functions of the kernel.                                            *)
(***************************************************************************)
LEMMA KernelIs ==
  ASSUME NEW s \in Kernel
  PROVE  /\ s.phase \in Phases /\ s.current \in Threads /\ s.frame \in Contexts
         /\ s.thread \in [Threads -> Thread] /\ s.event \in [Events -> BOOLEAN]
         /\ s.iosb \in [Requests -> {"pending", "done"}] /\ s.inserted \in [Kapcs -> BOOLEAN]
         /\ s.ids \in 1..MaxThreadId /\ s.polled \in Seq(JobOf)
         /\ \A t \in Threads : s.thread[t] \in Thread
  BY DEF Kernel

(* What no function of the kernel but the switch changes.                  *)
SameFrame(s, r) ==
  /\ r.phase = s.phase /\ r.current = s.current /\ r.frame = s.frame
  /\ r.ids = s.ids /\ r.polled = s.polled

(* A thread changed in a record.                                           *)
With(s, t, th) == [s EXCEPT !.thread[t] = th]
LEMMA WithIs ==
  ASSUME NEW s \in Kernel, NEW t \in Threads, NEW th \in Thread
  PROVE  LET r == With(s, t, th)
         IN /\ r \in Kernel /\ SameFrame(s, r) /\ r.thread[t] = th
            /\ \A u \in Threads : u # t => r.thread[u] = s.thread[u]
            /\ r.event = s.event /\ r.iosb = s.iosb /\ r.inserted = s.inserted
<1>1. PICK f \in [Threads -> Thread] : f = [s.thread EXCEPT ![t] = th]
  BY KernelIs
<1>2. With(s, t, th) = [s EXCEPT !.thread = f]
  BY <1>1 DEF With
<1>3. f[t] = th /\ \A u \in Threads : u # t => f[u] = s.thread[u]
  BY <1>1, KernelIs
<1>. QED
  BY <1>2, <1>3 DEF Kernel, SameFrame

(* A wait that is over, nothing else of the thread.                        *)
LEMMA ReadyAgainIs ==
  ASSUME NEW th \in Thread
  PROVE  LET on == ReadyAgain(th)
         IN /\ on \in Thread /\ on.state = "ready" /\ on.wait = "nothing"
            /\ on.id = th.id /\ on.queue = th.queue /\ on.chains = th.chains /\ on.ctx = th.ctx
  BY DEF ReadyAgain, Thread

(* Waits that end, and nothing else the chains and queues depend on.       *)
Eased(th, on) ==
  /\ on.id = th.id /\ on.queue = th.queue /\ on.chains = th.chains /\ on.ctx.place = th.ctx.place
  /\ \/ on.state = th.state /\ on.wait = th.wait
     \/ th.state = "waiting" /\ on.state = "ready"

LEMMA LiveAlike ==
  ASSUME NEW s \in Kernel, NEW r \in Kernel, SameFrame(s, r), NEW t \in Threads,
         r.thread[t].state = "terminated" <=> s.thread[t].state = "terminated"
  PROVE  /\ LiveIn(r, t) <=> LiveIn(s, t)
         /\ InCode(r) <=> InCode(s)
         /\ LiveIn(s, t) => ContextIn(r, t) = s.frame /\ ContextIn(s, t) = s.frame
         /\ ~LiveIn(s, t) => ContextIn(r, t) = r.thread[t].ctx /\ ContextIn(s, t) = s.thread[t].ctx
  BY DEF SameFrame, LiveIn, InCode, ContextIn

(* Waits that end, or nothing, keep what is said of the threads.           *)
LEMMA EasedKeeps ==
  ASSUME NEW s, ThreadsInv(s), LiveRuns(s), NEW r \in Kernel, SameFrame(s, r), r.inserted = s.inserted,
         \A t \in Threads : Eased(s.thread[t], r.thread[t])
  PROVE  ThreadsInv(r) /\ LiveRuns(r)
<1>1. s \in Kernel /\ s.current \in Threads
  BY KernelIs DEF ThreadsInv
<1>2. r.current = s.current /\ r.phase = s.phase /\ r.ids = s.ids /\ (InCode(r) <=> InCode(s))
  BY DEF SameFrame, InCode
<1>3. \A t \in Threads :
        /\ \/ r.thread[t].state = s.thread[t].state
           \/ s.thread[t].state = "waiting" /\ r.thread[t].state = "ready"
        /\ r.thread[t].state = "waiting" => (s.thread[t].state = "waiting" /\ r.thread[t].wait = s.thread[t].wait)
        /\ r.thread[t].id = s.thread[t].id /\ r.thread[t].queue = s.thread[t].queue
        /\ r.thread[t].chains = s.thread[t].chains /\ r.thread[t].ctx.place = s.thread[t].ctx.place
  <2> TAKE t \in Threads
  <2>1. Eased(s.thread[t], r.thread[t])
    OBVIOUS
  <2>. QED
    BY <2>1 DEF Eased
<1>4. StatesOk(r) /\ LiveRuns(r)
  <2>1. InCode(s) => r.thread[s.current].state = "running"
    BY <1>1, <1>3 DEF LiveRuns
  <2>2. s.phase = "guest" => InCode(s)
    BY DEF InCode
  <2>. QED
    BY <1>1, <1>2, <1>3, <2>1, <2>2 DEF StatesOk, LiveRuns, ThreadsInv
<1>5. NestsOk(r)
  <2> SUFFICES ASSUME NEW t \in Threads, r.thread[t].state \in Alive
               PROVE  NestOk(r.thread[t], ContextIn(r, t).place)
    BY DEF NestsOk
  <2>1. s.thread[t].state \in Alive
    BY <1>3 DEF Alive
  <2>2. NestOk(s.thread[t], ContextIn(s, t).place)
    BY <2>1 DEF ThreadsInv, NestsOk
  <2>3. ContextIn(r, t).place = ContextIn(s, t).place
    BY <1>1, <1>3, LiveAlike
  <2>. QED
    BY <1>3, <2>2, <2>3 DEF NestOk
<1>6. NoneMissed(r)
  <2> SUFFICES ASSUME NEW t \in Threads, r.thread[t].state = "waiting", r.thread[t].wait \in Alertable
               PROVE  ~NcApcPending(r.thread[t])
    BY DEF NoneMissed
  <2>1. s.thread[t].state = "waiting" /\ s.thread[t].wait \in Alertable
    BY <1>3
  <2>2. ~NcApcPending(s.thread[t])
    BY <2>1 DEF ThreadsInv, NoneMissed
  <2>. QED
    BY <1>3, <2>2 DEF NcApcPending
<1>7. QueuesOk(r)
  <2>1. \A t \in Threads : QueueSet(r, t) = QueueSet(s, t)
    BY <1>3 DEF QueueSet
  <2>. QED
    BY <1>3, <2>1 DEF ThreadsInv, QueuesOk
<1>8. IdsOk(r)
  <2>1. \A t \in Threads : r.thread[t].state = "free" <=> s.thread[t].state = "free"
    BY <1>3
  <2>. QED
    BY <1>2, <1>3, <2>1 DEF ThreadsInv, IdsOk
<1>. QED
  BY <1>4, <1>5, <1>6, <1>7, <1>8 DEF ThreadsInv

(* An event is set, and the waits for it end: what a read tells first.     *)
Told(s, r) == SetEvent([s EXCEPT !.iosb[r] = "done"], EventOf[r])

(* A thread whose wait for an event may have ended.                        *)
EventEnds(th, on) ==
  \/ on = th
  \/ th.state = "waiting" /\ th.wait \in Events /\ on = ReadyAgain(th)

LEMMA ToldIs ==
  ASSUME NEW s \in Kernel, NEW r \in Requests
  PROVE  LET o == Told(s, r)
         IN /\ o \in Kernel /\ SameFrame(s, o) /\ o.inserted = s.inserted
            /\ o.iosb[r] = "done" /\ \A q \in Requests : q # r => o.iosb[q] = s.iosb[q]
            /\ \A t \in Threads : EventEnds(s.thread[t], o.thread[t])
<1> DEFINE f == [s.iosb EXCEPT ![r] = "done"]
           a == [s EXCEPT !.iosb = f]
           g == [a.event EXCEPT ![EventOf[r]] = TRUE]
           b == [a EXCEPT !.event = g]
           Over(th) == th.state = "waiting" /\ th.wait \in Events /\ b.event[th.wait]
           h == [t \in Threads |-> IF Over(b.thread[t]) THEN ReadyAgain(b.thread[t]) ELSE b.thread[t]]
           o == [b EXCEPT !.thread = h]
<1>1. f \in [Requests -> {"pending", "done"}] /\ f[r] = "done" /\ \A q \in Requests : q # r => f[q] = s.iosb[q]
  BY KernelIs
<1> HIDE DEF f
<1>2. a \in Kernel /\ SameFrame(s, a) /\ a.thread = s.thread /\ a.inserted = s.inserted /\ a.event = s.event
      /\ a.iosb = f
  BY <1>1 DEF Kernel, SameFrame
<1> HIDE DEF a
<1>3. g \in [Events -> BOOLEAN]
  BY <1>2, KernelIs
<1> HIDE DEF g
<1>4. b \in Kernel /\ SameFrame(a, b) /\ b.thread = a.thread /\ b.inserted = a.inserted /\ b.iosb = a.iosb
  BY <1>2, <1>3 DEF Kernel, SameFrame
<1> HIDE DEF b
<1>5. \A t \in Threads : b.thread[t] \in Thread /\ ReadyAgain(b.thread[t]) \in Thread
  BY <1>4, KernelIs, ReadyAgainIs
<1>6. h \in [Threads -> Thread] /\ \A t \in Threads : EventEnds(b.thread[t], h[t])
  <2>1. \A t \in Threads : h[t] = IF Over(b.thread[t]) THEN ReadyAgain(b.thread[t]) ELSE b.thread[t]
    OBVIOUS
  <2>2. \A t \in Threads : Over(b.thread[t]) => b.thread[t].state = "waiting" /\ b.thread[t].wait \in Events
    OBVIOUS
  <2>3. h \in [Threads -> Thread]
    <3> HIDE DEF Over
    <3>. QED
      BY <1>5
  <2> HIDE DEF Over, h
  <2>. QED
    BY <1>5, <2>1, <2>2, <2>3 DEF EventEnds
<1>7. Told(s, r) = o
  <2>1. a = [s EXCEPT !.iosb[r] = "done"]
    BY DEF a, f
  <2>2. b = [a EXCEPT !.event[EventOf[r]] = TRUE]
    BY DEF b, g
  <2>. QED
    BY <2>1, <2>2 DEF Told, SetEvent, CheckWaits
<1> HIDE DEF h
<1>8. o \in Kernel /\ SameFrame(b, o) /\ o.thread = h /\ o.inserted = b.inserted /\ o.iosb = b.iosb
  BY <1>4, <1>6 DEF Kernel, SameFrame
<1> HIDE DEF o
<1>9. o.inserted = s.inserted /\ o.iosb = f /\ b.thread = s.thread /\ SameFrame(s, o)
  BY <1>2, <1>4, <1>8 DEF SameFrame
<1>. QED
  BY <1>1, <1>6, <1>7, <1>8, <1>9

LEMMA EventEndsEases ==
  ASSUME NEW th \in Thread, NEW on, EventEnds(th, on)
  PROVE  Eased(th, on)
  BY ReadyAgainIs DEF EventEnds, Eased

(* A request done and told of keeps what is said of the threads.           *)
LEMMA ToldKeeps ==
  ASSUME NEW s, ThreadsInv(s), LiveRuns(s), NEW r \in Requests
  PROVE  ThreadsInv(Told(s, r)) /\ LiveRuns(Told(s, r))
<1> DEFINE o == Told(s, r)
<1>1. s \in Kernel
  BY DEF ThreadsInv
<1>2. o \in Kernel /\ SameFrame(s, o) /\ o.inserted = s.inserted
      /\ \A t \in Threads : EventEnds(s.thread[t], o.thread[t])
  BY <1>1, ToldIs
<1> HIDE DEF o
<1>3. \A t \in Threads : Eased(s.thread[t], o.thread[t])
  BY <1>1, <1>2, EventEndsEases, KernelIs
<1>. QED
  BY <1>2, <1>3, EasedKeeps DEF o

(* The thread that waits in its call goes on with what its read came to.   *)
Woken(th) == [th EXCEPT !.state = "ready", !.ctx = [th.ctx EXCEPT !.eax = "done"]]

LEMMA WokenIs ==
  ASSUME NEW th \in Thread
  PROVE  LET on == Woken(th)
         IN /\ on \in Thread /\ on.state = "ready" /\ on.wait = th.wait /\ on.id = th.id
            /\ on.queue = th.queue /\ on.chains = th.chains
            /\ on.ctx.place = th.ctx.place /\ on.ctx.eax = "done"
<1>1. PICK c \in Contexts : c = [th.ctx EXCEPT !.eax = "done"]
  BY ThreadIs DEF Contexts, Statuses
<1>2. c.place = th.ctx.place /\ c.eax = "done"
  BY <1>1, ThreadIs DEF Contexts
<1>3. Woken(th) = [th EXCEPT !.state = "ready", !.ctx = c]
  BY <1>1 DEF Woken
<1>. QED
  BY <1>2, <1>3 DEF Thread

LEMMA WakeIs ==
  ASSUME NEW s \in Kernel, NEW job \in JobOf
  PROVE  Wake(s, job) = IF job.request \in Sync /\ Asker(s, job, {"waiting"})
                          THEN With(s, job.thread, Woken(s.thread[job.thread])) ELSE s
<1> DEFINE t == job.thread
<1>1. t \in Threads
  BY DEF JobOf
<1>2. s.thread \in [Threads -> Thread] /\ s.thread[t] \in Thread /\ s.thread[t].ctx \in Contexts
  BY <1>1, KernelIs, ThreadIs
<1>3. [s EXCEPT !.thread[t].state = "ready", !.thread[t].ctx.eax = "done"] = With(s, t, Woken(s.thread[t]))
  BY <1>1, <1>2 DEF With, Woken, Kernel, Thread, Contexts
<1>. QED
  BY <1>3 DEF Wake

(* So does nc_ke_wake.                                                     *)
LEMMA WakeKeeps ==
  ASSUME NEW s, ThreadsInv(s), LiveRuns(s), NEW job \in JobOf
  PROVE  LET r == Wake(s, job)
         IN /\ ThreadsInv(r) /\ LiveRuns(r) /\ SameFrame(s, r)
            /\ r.event = s.event /\ r.iosb = s.iosb /\ r.inserted = s.inserted
            /\ \A u \in Threads : u # job.thread => r.thread[u] = s.thread[u]
            /\ IF job.request \in Sync /\ Asker(s, job, {"waiting"})
                 THEN r.thread[job.thread] = Woken(s.thread[job.thread])
               ELSE r = s
<1>1. s \in Kernel /\ job.thread \in Threads
  BY DEF ThreadsInv, JobOf
<1>2. CASE ~(job.request \in Sync /\ Asker(s, job, {"waiting"}))
  <2>1. Wake(s, job) = s
    BY <1>1, <1>2, WakeIs
  <2>. QED
    BY <1>2, <2>1 DEF SameFrame
<1>3. CASE job.request \in Sync /\ Asker(s, job, {"waiting"})
  <2> DEFINE t == job.thread
             r == With(s, t, Woken(s.thread[t]))
  <2>1. Wake(s, job) = r
    BY <1>1, <1>3, WakeIs
  <2>2. s.thread[t] \in Thread /\ s.thread[t].state = "waiting"
    BY <1>1, <1>3, KernelIs DEF Asker
  <2>3. Woken(s.thread[t]) \in Thread /\ Eased(s.thread[t], Woken(s.thread[t]))
    BY <2>2, WokenIs DEF Eased
  <2>4. /\ r \in Kernel /\ SameFrame(s, r) /\ r.thread[t] = Woken(s.thread[t])
        /\ \A u \in Threads : u # t => r.thread[u] = s.thread[u]
        /\ r.event = s.event /\ r.iosb = s.iosb /\ r.inserted = s.inserted
    BY <1>1, <2>3, WithIs
  <2> HIDE DEF r
  <2>5. \A u \in Threads : Eased(s.thread[u], r.thread[u])
    BY <2>3, <2>4 DEF Eased
  <2>6. ThreadsInv(r) /\ LiveRuns(r)
    BY <2>4, <2>5, EasedKeeps
  <2>. QED
    BY <1>3, <2>1, <2>4, <2>6
<1>. QED
  BY <1>2, <1>3

(* An APC is queued, or runs at once on a thread that waits for one.       *)
Runs(s, t, a) ==
  LET th == [s.thread[t] EXCEPT !.queue = Append(@, a)]
  IN th.state = "waiting" /\ th.wait \in Alertable /\ NcApcPending(th)

QueuedLast(th, on, a) ==
  /\ on.state = th.state /\ on.wait = th.wait /\ on.id = th.id /\ on.chains = th.chains /\ on.ctx = th.ctx
  /\ on.queue = Append(th.queue, a)

BegunAtOnce(th, on) ==
  /\ th.state = "waiting" /\ th.wait \in Alertable /\ th.queue = << >>
  /\ on.state = "ready" /\ on.wait = "nothing" /\ on.id = th.id /\ on.queue = << >>
  /\ NestOk(on, on.ctx.place)

LEMMA BegunIs ==
  ASSUME NEW s \in Kernel, NEW a \in Apcs
  PROVE  LET r == Begun(s, FirstCall(a))
         IN /\ r \in Kernel /\ SameFrame(s, r) /\ r.thread = s.thread /\ r.event = s.event /\ r.iosb = s.iosb
            /\ \A b \in Kapcs : b # a => r.inserted[b] = s.inserted[b]
<1>1. CASE a \in Kapcs
  <2>1. Begun(s, FirstCall(a)) = [s EXCEPT !.inserted[a] = FALSE]
    BY <1>1 DEF Begun, FirstCall
  <2>2. PICK f \in [Kapcs -> BOOLEAN] : f = [s.inserted EXCEPT ![a] = FALSE]
    BY KernelIs
  <2>3. \A b \in Kapcs : b # a => f[b] = s.inserted[b]
    BY <2>2, KernelIs
  <2>4. Begun(s, FirstCall(a)) = [s EXCEPT !.inserted = f]
    BY <2>1, <2>2
  <2>. QED
    BY <2>3, <2>4 DEF Kernel, SameFrame
<1>2. CASE a \notin Kapcs
  BY <1>2 DEF Begun, FirstCall, SameFrame
<1>. QED
  BY <1>1, <1>2

(* nc_apc_queue: the APC is last in the queue, or runs at once on a thread *)
(* that waited alertably with an empty queue.                              *)
LEMMA NcApcQueueIs ==
  ASSUME NEW s, ThreadsInv(s), LiveRuns(s), NEW t \in Threads, NEW a \in Apcs
  PROVE  LET r == NcApcQueue(s, t, a)
         IN /\ r \in Kernel /\ SameFrame(s, r) /\ r.event = s.event /\ r.iosb = s.iosb
            /\ \A u \in Threads : u # t => r.thread[u] = s.thread[u]
            /\ \A b \in Kapcs : b # a => r.inserted[b] = s.inserted[b]
            /\ \/ /\ QueuedLast(s.thread[t], r.thread[t], a) /\ r.inserted = s.inserted
                  /\ r.thread[t].state = "waiting" /\ r.thread[t].wait \in Alertable
                       => ~NcApcPending(r.thread[t])
               \/ BegunAtOnce(s.thread[t], r.thread[t])
<1> DEFINE th == [s.thread[t] EXCEPT !.queue = Append(@, a)]
           r == NcApcQueue(s, t, a)
<1>1. s \in Kernel /\ s.thread[t] \in Thread /\ s.thread[t].queue \in Seq(Apcs)
  BY KernelIs, ThreadIs DEF ThreadsInv
<1>2. PICK q \in Seq(Apcs) : q = Append(s.thread[t].queue, a)
  BY <1>1, AppendIs
<1>3. th = [s.thread[t] EXCEPT !.queue = q]
  BY <1>2
<1>4. th \in Thread /\ QueuedLast(s.thread[t], th, a) /\ th.queue = q
  BY <1>1, <1>2, <1>3 DEF Thread, QueuedLast
<1>5. CASE ~Runs(s, t, a)
  <2>1. r = With(s, t, th)
    BY <1>5 DEF NcApcQueue, Runs, With
  <2>2. ~(th.state = "waiting" /\ th.wait \in Alertable /\ NcApcPending(th))
    BY <1>5 DEF Runs
  <2> HIDE DEF th, r
  <2>3. /\ r \in Kernel /\ SameFrame(s, r) /\ r.thread[t] = th
        /\ \A u \in Threads : u # t => r.thread[u] = s.thread[u]
        /\ r.event = s.event /\ r.iosb = s.iosb /\ r.inserted = s.inserted
    BY <1>1, <1>4, <2>1, WithIs
  <2>. QED
    BY <1>4, <2>2, <2>3 DEF r
<1>6. CASE Runs(s, t, a)
  <2> DEFINE on == BeginChain(th, th.ctx.place)
             go == [ReadyAgain(on) EXCEPT !.ctx.place = Routine(on)]
  <2>1. th.state = "waiting" /\ th.wait \in Alertable /\ NcApcPending(th)
    BY <1>6 DEF Runs
  <2>2. r = Begun(With(s, t, go), Last(on.chains).call)
    BY <2>1 DEF NcApcQueue, With
  <2> HIDE DEF th, r
  <2>3. s.thread[t].state = "waiting" /\ s.thread[t].wait \in Alertable
        /\ th.chains = s.thread[t].chains /\ th.ctx = s.thread[t].ctx /\ th.id = s.thread[t].id
    BY <1>4, <2>1 DEF QueuedLast
  <2>4. ~NcApcPending(s.thread[t])
    BY <2>3 DEF ThreadsInv, NoneMissed
  <2>5. s.thread[t].queue = << >>
    BY <2>1, <2>3, <2>4 DEF NcApcPending
  <2>6. Head(q) = a /\ Tail(q) = << >>
    BY <1>2, <2>5
  <2>7. NestOk(s.thread[t], ContextIn(s, t).place)
    BY <2>3 DEF ThreadsInv, NestsOk, Alive
  <2>8. ContextIn(s, t) = s.thread[t].ctx
    BY <2>3 DEF ContextIn, LiveIn, LiveRuns
  <2>9. NestOk(th, th.ctx.place) /\ th.ctx \in Contexts /\ th.ctx.place \in Places
    BY <1>4, <2>3, <2>7, <2>8, ThreadIs, ConstantsAre DEF NestOk
  <2>10. /\ on \in Thread /\ on.state = th.state /\ on.id = th.id /\ on.wait = th.wait /\ on.ctx = th.ctx
         /\ on.queue = Tail(th.queue)
         /\ Routine(on) \in Places /\ NestOk(on, Routine(on))
         /\ Last(on.chains).call = FirstCall(Head(th.queue))
    BY <1>4, <2>1, <2>9, BeginChainIs
  <2> HIDE DEF on
  <2>11. /\ ReadyAgain(on) \in Thread /\ ReadyAgain(on).state = "ready" /\ ReadyAgain(on).wait = "nothing"
         /\ ReadyAgain(on).id = on.id /\ ReadyAgain(on).queue = on.queue
         /\ ReadyAgain(on).chains = on.chains /\ ReadyAgain(on).ctx = on.ctx
    BY <2>10, ReadyAgainIs
  <2>12. PICK c \in Contexts : c = [on.ctx EXCEPT !.place = Routine(on)]
    BY <2>9, <2>10 DEF Contexts
  <2>13. c.place = Routine(on)
    BY <2>9, <2>10, <2>12 DEF Contexts
  <2>14. go = [ReadyAgain(on) EXCEPT !.ctx = c]
    BY <2>11, <2>12
  <2> HIDE DEF go
  <2>15. /\ go \in Thread /\ go.state = "ready" /\ go.wait = "nothing" /\ go.id = on.id /\ go.queue = on.queue
         /\ go.chains = on.chains /\ go.ctx = c
    BY <2>11, <2>14 DEF Thread
  <2>16. BegunAtOnce(s.thread[t], go)
    BY <1>4, <2>3, <2>5, <2>6, <2>10, <2>13, <2>15 DEF BegunAtOnce, NestOk
  <2> DEFINE w == With(s, t, go)
  <2>17. /\ w \in Kernel /\ SameFrame(s, w) /\ w.thread[t] = go
         /\ \A u \in Threads : u # t => w.thread[u] = s.thread[u]
         /\ w.event = s.event /\ w.iosb = s.iosb /\ w.inserted = s.inserted
    BY <1>1, <2>15, WithIs
  <2>18. r = Begun(w, FirstCall(a))
    BY <1>4, <2>2, <2>6, <2>10
  <2> HIDE DEF w
  <2>19. /\ r \in Kernel /\ SameFrame(w, r) /\ r.thread = w.thread /\ r.event = w.event /\ r.iosb = w.iosb
         /\ \A b \in Kapcs : b # a => r.inserted[b] = w.inserted[b]
    BY <2>17, <2>18, BegunIs
  <2>20. SameFrame(s, r)
    BY <2>17, <2>19 DEF SameFrame
  <2>. QED
    BY <2>16, <2>17, <2>19, <2>20 DEF r
<1>. QED
  BY <1>5, <1>6

(* An APC that can be queued.                                              *)
Fresh(s, a) ==
  /\ \A u \in Threads : a \notin QueueSet(s, u)
  /\ a \in Kapcs => s.inserted[a]

(* nc_apc_queue keeps what is said of the threads, of an APC that is in no *)
(* queue.                                                                  *)
LEMMA NcApcQueueKeeps ==
  ASSUME NEW s, ThreadsInv(s), LiveRuns(s), NEW t \in Threads, NEW a \in Apcs, Fresh(s, a)
  PROVE  LET r == NcApcQueue(s, t, a)
         IN ThreadsInv(r) /\ LiveRuns(r)
<1> DEFINE r == NcApcQueue(s, t, a)
<1>1. s \in Kernel /\ s.current \in Threads /\ s.thread[t].queue \in Seq(Apcs)
  BY KernelIs, ThreadIs DEF ThreadsInv
<1>2. /\ r \in Kernel /\ SameFrame(s, r)
      /\ \A u \in Threads : u # t => r.thread[u] = s.thread[u]
      /\ \A b \in Kapcs : b # a => r.inserted[b] = s.inserted[b]
      /\ \/ /\ QueuedLast(s.thread[t], r.thread[t], a) /\ r.inserted = s.inserted
            /\ r.thread[t].state = "waiting" /\ r.thread[t].wait \in Alertable
                 => ~NcApcPending(r.thread[t])
         \/ BegunAtOnce(s.thread[t], r.thread[t])
  BY NcApcQueueIs
<1> HIDE DEF r
<1>3. /\ \A u \in Threads : r.thread[u].id = s.thread[u].id
      /\ \A u \in Threads : \/ r.thread[u].state = s.thread[u].state
                            \/ s.thread[u].state = "waiting" /\ r.thread[u].state = "ready"
  <2>1. r.thread[t].id = s.thread[t].id
    BY <1>2 DEF QueuedLast, BegunAtOnce
  <2>2. \/ r.thread[t].state = s.thread[t].state
        \/ s.thread[t].state = "waiting" /\ r.thread[t].state = "ready"
    BY <1>2 DEF QueuedLast, BegunAtOnce
  <2>. QED
    BY <1>2, <2>1, <2>2
<1>4. r.current = s.current /\ r.phase = s.phase /\ r.ids = s.ids /\ (InCode(r) <=> InCode(s))
  BY <1>2 DEF SameFrame, InCode
<1>5. StatesOk(r) /\ LiveRuns(r)
  <2>1. InCode(s) => r.thread[s.current].state = "running"
    BY <1>1, <1>3 DEF LiveRuns
  <2>2. s.phase = "guest" => InCode(s)
    BY DEF InCode
  <2>. QED
    BY <1>1, <1>3, <1>4, <2>1, <2>2 DEF StatesOk, LiveRuns, ThreadsInv
<1>6. NestsOk(r)
  <2> SUFFICES ASSUME NEW u \in Threads, r.thread[u].state \in Alive
               PROVE  NestOk(r.thread[u], ContextIn(r, u).place)
    BY DEF NestsOk
  <2>1. s.thread[u].state \in Alive
    BY <1>3 DEF Alive
  <2>2. NestOk(s.thread[u], ContextIn(s, u).place)
    BY <2>1 DEF ThreadsInv, NestsOk
  <2>3. r.thread[u].state = "terminated" <=> s.thread[u].state = "terminated"
    BY <1>3
  <2>4. CASE u # t \/ QueuedLast(s.thread[t], r.thread[t], a)
    <3>1. r.thread[u].ctx = s.thread[u].ctx /\ r.thread[u].chains = s.thread[u].chains
      BY <1>2, <2>4 DEF QueuedLast
    <3>2. ContextIn(r, u) = ContextIn(s, u)
      BY <1>1, <1>2, <2>3, <3>1, LiveAlike
    <3>. QED
      BY <2>2, <3>1, <3>2 DEF NestOk
  <2>5. CASE u = t /\ BegunAtOnce(s.thread[t], r.thread[t])
    <3>1. ~LiveIn(s, u)
      BY <2>5 DEF LiveIn, LiveRuns, BegunAtOnce
    <3>2. ContextIn(r, u) = r.thread[u].ctx
      BY <1>1, <1>2, <2>3, <3>1, LiveAlike
    <3>. QED
      BY <2>5, <3>2 DEF BegunAtOnce
  <2>. QED
    BY <1>2, <2>4, <2>5
<1>7. NoneMissed(r)
  <2> SUFFICES ASSUME NEW u \in Threads, r.thread[u].state = "waiting", r.thread[u].wait \in Alertable
               PROVE  ~NcApcPending(r.thread[u])
    BY DEF NoneMissed
  <2>1. CASE u = t
    BY <1>2, <2>1 DEF BegunAtOnce
  <2>2. CASE u # t
    BY <1>2, <2>2 DEF ThreadsInv, NoneMissed
  <2>. QED
    BY <2>1, <2>2
<1>8. /\ QueueSet(r, t) \subseteq QueueSet(s, t) \cup {a} /\ IsInjective(r.thread[t].queue)
      /\ a \in QueueSet(r, t) => r.inserted = s.inserted
  <2>1. CASE QueuedLast(s.thread[t], r.thread[t], a) /\ r.inserted = s.inserted
    <3>1. r.thread[t].queue = Append(s.thread[t].queue, a)
      BY <2>1 DEF QueuedLast
    <3>2. IsInjective(s.thread[t].queue) /\ a \notin Range(s.thread[t].queue)
      BY DEF ThreadsInv, QueuesOk, Fresh, QueueSet
    <3>. QED
      BY <1>1, <2>1, <3>1, <3>2, AppendIs DEF QueueSet
  <2>2. CASE BegunAtOnce(s.thread[t], r.thread[t])
    <3>1. r.thread[t].queue = << >>
      BY <2>2 DEF BegunAtOnce
    <3>. QED
      BY <3>1, EmptyIs DEF QueueSet
  <2>. QED
    BY <1>2, <2>1, <2>2
<1>9. \A u \in Threads : u # t => r.thread[u].queue = s.thread[u].queue /\ QueueSet(r, u) = QueueSet(s, u)
  BY <1>2 DEF QueueSet
<1>10. QueuesOk(r)
  <2>1. \A u \in Threads : IsInjective(r.thread[u].queue)
    BY <1>8, <1>9 DEF ThreadsInv, QueuesOk
  <2>2. \A u \in Threads : \A b \in QueueSet(r, u) \cap Kapcs : r.inserted[b]
    <3> TAKE u \in Threads
    <3> TAKE b \in QueueSet(r, u) \cap Kapcs
    <3>1. CASE b = a
      <4>1. u = t
        BY <1>9, <3>1 DEF Fresh
      <4>. QED
        BY <1>8, <3>1, <4>1 DEF Fresh
    <3>2. CASE b # a
      <4>1. b \in QueueSet(s, u)
        BY <1>8, <1>9, <3>2
      <4>. QED
        BY <1>2, <3>2, <4>1 DEF ThreadsInv, QueuesOk
    <3>. QED
      BY <3>1, <3>2
  <2>3. \A u, v \in Threads : u # v => QueueSet(r, u) \cap QueueSet(r, v) = {}
    <3>1. \A u, v \in Threads : u # v => QueueSet(s, u) \cap QueueSet(s, v) = {}
      BY DEF ThreadsInv, QueuesOk
    <3>2. \A u \in Threads : a \notin QueueSet(s, u)
      BY DEF Fresh
    <3>. QED
      BY <1>8, <1>9, <3>1, <3>2
  <2>. QED
    BY <2>1, <2>2, <2>3 DEF QueuesOk
<1>11. IdsOk(r)
  <2>1. \A u \in Threads : r.thread[u].state = "free" <=> s.thread[u].state = "free"
    BY <1>3
  <2>. QED
    BY <1>3, <1>4, <2>1 DEF ThreadsInv, IdsOk
<1>. QED
  BY <1>2, <1>5, <1>6, <1>7, <1>10, <1>11 DEF ThreadsInv, r

-----------------------------------------------------------------------------
(***************************************************************************)
(* What steps leave alone.                                                 *)
(***************************************************************************)

(* A thread that keeps its APCs.                                           *)
Alike(th, on) ==
  /\ on.id = th.id /\ on.queue = th.queue /\ on.chains = th.chains
  /\ on.state = "free" <=> th.state = "free"

(* What changes no thread's APCs and wakes or saves at most.               *)
LEMMA PlainKeeps ==
  ASSUME NEW s, ThreadsInv(s), NEW r \in Kernel, r.ids = s.ids, r.inserted = s.inserted, StatesOk(r),
         \A t \in Threads : Alike(s.thread[t], r.thread[t]),
         \A t \in Threads : r.thread[t].state \in Alive =>
           s.thread[t].state \in Alive /\ ContextIn(r, t).place = ContextIn(s, t).place,
         \A t \in Threads : r.thread[t].state = "waiting" /\ r.thread[t].wait \in Alertable =>
           (s.thread[t].state = "waiting" /\ s.thread[t].wait \in Alertable) \/ ~NcApcPending(s.thread[t])
  PROVE  ThreadsInv(r)
<1>1. \A t \in Threads :
        /\ r.thread[t].id = s.thread[t].id /\ r.thread[t].queue = s.thread[t].queue
        /\ r.thread[t].chains = s.thread[t].chains
        /\ r.thread[t].state = "free" <=> s.thread[t].state = "free"
        /\ QueueSet(r, t) = QueueSet(s, t)
  BY DEF Alike, QueueSet
<1>2. NestsOk(r)
  <2> SUFFICES ASSUME NEW t \in Threads, r.thread[t].state \in Alive
               PROVE  NestOk(r.thread[t], ContextIn(r, t).place)
    BY DEF NestsOk
  <2>1. NestOk(s.thread[t], ContextIn(s, t).place)
    BY DEF ThreadsInv, NestsOk
  <2>. QED
    BY <1>1, <2>1 DEF NestOk
<1>3. NoneMissed(r)
  <2> SUFFICES ASSUME NEW t \in Threads, r.thread[t].state = "waiting", r.thread[t].wait \in Alertable
               PROVE  ~NcApcPending(r.thread[t])
    BY DEF NoneMissed
  <2>1. ~NcApcPending(s.thread[t])
    BY DEF ThreadsInv, NoneMissed
  <2>. QED
    BY <1>1, <2>1 DEF NcApcPending
<1>4. QueuesOk(r)
  BY <1>1 DEF ThreadsInv, QueuesOk
<1>5. IdsOk(r)
  BY <1>1 DEF ThreadsInv, IdsOk
<1>. QED
  BY <1>2, <1>3, <1>4, <1>5 DEF ThreadsInv

LEMMA JobsAre ==
  ASSUME NEW s \in Kernel, NEW rd \in Readers
  PROVE  /\ JobsOf(s, rd) \subseteq JobOf
         /\ \A j \in JobOf : j.request \in Requests /\ j.thread \in Threads /\ j.id \in Nat /\ j.id >= 1
         /\ rd.queue \in Seq(JobOf) /\ rd.done \in Seq(JobOf) /\ s.polled \in Seq(JobOf)
         /\ rd.busy \in Nat /\ rd.busy <= DISC_JOBS /\ rd.posting \in BOOLEAN
<1>1. rd.queue \in Seq(JobOf) /\ rd.done \in Seq(JobOf) /\ s.polled \in Seq(JobOf)
  BY DEF Readers, Kernel
<1>2. JobsOf(s, rd) \subseteq JobOf
  BY <1>1, RangeIs DEF JobsOf
<1>3. \A j \in JobOf : j.request \in Requests /\ j.thread \in Threads /\ j.id \in Nat /\ j.id >= 1
  BY ConstantsAre DEF JobOf
<1>4. rd.busy \in Nat /\ rd.busy <= DISC_JOBS /\ rd.posting \in BOOLEAN
  BY ConstantsAre DEF Readers
<1>. QED
  BY <1>1, <1>2, <1>3, <1>4

(* A step that no read and no job takes part in.                           *)
QuietReads(s, r) ==
  /\ r.iosb = s.iosb /\ r.polled = s.polled /\ s.ids <= r.ids
  /\ \A t \in Threads, q \in Requests :
       s.iosb[q] = "pending" /\ q \in QueueSet(r, t) => q \in QueueSet(s, t)
  /\ \A t \in Threads : r.thread[t].id = s.thread[t].id \/ r.thread[t].id > s.ids \/ r.thread[t].id = 0
  /\ \A t \in Threads : s.thread[t].state = "waiting" => r.thread[t].id = s.thread[t].id
  /\ \A t \in Threads, q \in Requests : Waits(r, t, q) <=> Waits(s, t, q)
  /\ \A t \in Threads : r.thread[t].wait \in Requests /\ r.thread[t].state \in {"ready", "running"} =>
       /\ s.thread[t].wait = r.thread[t].wait /\ s.thread[t].state \in {"ready", "running"}
       /\ ContextIn(r, t).eax = ContextIn(s, t).eax

(* Steps that leave the reads alone keep what is said of them.             *)
LEMMA QuietKeeps ==
  ASSUME NEW s \in Kernel, NEW r \in Kernel, NEW rd, ReadsInv(s, rd), QuietReads(s, r)
  PROVE  ReadsInv(r, rd)
<1>1. rd \in Readers /\ JobsOf(r, rd) = JobsOf(s, rd)
  BY DEF ReadsInv, JobsOk, JobsOf, QuietReads
<1>2. JobsOk(r, rd)
  BY <1>1 DEF ReadsInv, JobsOk, QuietReads
<1>3. PendingUnqueued(r)
  BY DEF ReadsInv, PendingUnqueued, QuietReads
<1>4. JobThreads(r, JobsOf(r, rd))
  <2> SUFFICES ASSUME NEW j \in JobsOf(s, rd)
               PROVE  /\ j.id <= r.ids
                      /\ \A t \in Threads : r.thread[t].id = j.id => t = j.thread
                      /\ j.request \in Sync =>
                           /\ r.thread[j.thread].id = j.id
                           /\ \A t \in Threads : Waits(r, t, j.request) <=> t = j.thread
    BY <1>1 DEF JobThreads
  <2>1. j \in JobOf /\ j.request \in Requests /\ j.thread \in Threads /\ j.id \in Nat /\ j.id >= 1
    BY <1>1, JobsAre
  <2>2. /\ j.id <= s.ids
        /\ \A t \in Threads : s.thread[t].id = j.id => t = j.thread
        /\ j.request \in Sync =>
             /\ s.thread[j.thread].id = j.id
             /\ \A t \in Threads : Waits(s, t, j.request) <=> t = j.thread
    BY DEF ReadsInv, JobThreads
  <2>3. s.ids \in Nat /\ r.ids \in Nat /\ s.ids <= r.ids
    BY KernelIs, ConstantsAre DEF QuietReads
  <2>4. \A t \in Threads : r.thread[t].id = j.id => t = j.thread
    <3> SUFFICES ASSUME NEW t \in Threads, r.thread[t].id = j.id PROVE t = j.thread
      OBVIOUS
    <3>1. r.thread[t].id = s.thread[t].id \/ r.thread[t].id > s.ids \/ r.thread[t].id = 0
      BY DEF QuietReads
    <3>. QED
      BY <2>1, <2>2, <2>3, <3>1
  <2>5. ASSUME j.request \in Sync
        PROVE  /\ r.thread[j.thread].id = j.id
               /\ \A t \in Threads : Waits(r, t, j.request) <=> t = j.thread
    <3>1. Waits(s, j.thread, j.request)
      BY <2>1, <2>2, <2>5
    <3>2. r.thread[j.thread].id = s.thread[j.thread].id
      BY <2>1, <3>1 DEF QuietReads, Waits
    <3>. QED
      BY <2>1, <2>2, <2>5, <3>2 DEF QuietReads
  <2>. QED
    BY <2>1, <2>2, <2>3, <2>4, <2>5
<1>5. SyncOk(r)
  <2> SUFFICES ASSUME NEW t \in Threads, NEW q \in Requests, r.thread[t].wait = q, r.thread[t].state \in Alive
               PROVE  /\ q \in Sync
                      /\ IF r.thread[t].state = "waiting" THEN r.iosb[q] = "pending"
                         ELSE r.iosb[q] = "done" /\ ContextIn(r, t).eax = "done"
    BY DEF SyncOk
  <2>1. r.iosb = s.iosb
    BY DEF QuietReads
  <2>2. CASE r.thread[t].state = "waiting"
    <3>1. Waits(s, t, q)
      BY <2>2 DEF QuietReads, Waits
    <3>. QED
      BY <2>1, <2>2, <3>1 DEF Waits, ReadsInv, SyncOk, Alive
  <2>3. CASE r.thread[t].state \in {"ready", "running"}
    <3>1. /\ s.thread[t].wait = q /\ s.thread[t].state \in {"ready", "running"}
          /\ ContextIn(r, t).eax = ContextIn(s, t).eax
      BY <2>3 DEF QuietReads
    <3>. QED
      BY <2>1, <2>3, <3>1 DEF ReadsInv, SyncOk, Alive
  <2>. QED
    BY <2>2, <2>3 DEF Alive
<1>. QED
  BY <1>2, <1>3, <1>4, <1>5 DEF ReadsInv

(* Jobs that move on, and nothing else.                                    *)
LEMMA MovesKeep ==
  ASSUME NEW s \in Kernel, NEW r \in Kernel, NEW rd, NEW on \in Readers, ReadsInv(s, rd),
         r.thread = s.thread, r.iosb = s.iosb, r.ids = s.ids, r.current = s.current, r.frame = s.frame,
         InCode(r) <=> InCode(s), JobsOf(r, on) = JobsOf(s, rd), on.busy = Len(on.queue) + Len(on.done),
         Distinct(on.queue), Distinct(on.done), Distinct(r.polled),
         Apart(on.queue, on.done), Apart(on.queue, r.polled), Apart(on.done, r.polled)
  PROVE  ReadsInv(r, on)
<1>1. JobsOk(r, on)
  BY DEF ReadsInv, JobsOk
<1>2. PendingUnqueued(r)
  BY DEF ReadsInv, PendingUnqueued, QueueSet
<1>3. JobThreads(r, JobsOf(r, on))
  BY DEF ReadsInv, JobThreads, Waits
<1>4. \A t \in Threads : ContextIn(r, t) = ContextIn(s, t)
  BY DEF ContextIn, LiveIn
<1>5. SyncOk(r)
  BY <1>4 DEF ReadsInv, SyncOk
<1>. QED
  BY <1>1, <1>2, <1>3, <1>5 DEF ReadsInv

(* How many jobs there are.                                                *)
LEMMA PartOfCount ==
  ASSUME NEW m \in Nat, NEW a \in Nat, NEW b \in Nat, a + b <= m
  PROVE  a \in 0 .. m
  OBVIOUS
LEMMA CountOnce ==
  ASSUME NEW x \in Nat, NEW y \in Nat
  PROVE  (x + y) + 1 = (x + 1) + y
  OBVIOUS

(* The reads done are taken off the list.                                  *)
LEMMA TakenKeep ==
  ASSUME NEW s \in Kernel, NEW r \in Kernel, NEW rd, ReadsInv(s, rd), s.polled = << >>,
         r.thread = s.thread, r.iosb = s.iosb, r.ids = s.ids, r.current = s.current, r.frame = s.frame,
         InCode(r) <=> InCode(s), r.polled = rd.done
  PROVE  LET on == [rd EXCEPT !.done = << >>, !.busy = @ - Len(rd.done)]
         IN ReadsInv(r, on) /\ JobsOf(r, on) = JobsOf(s, rd)
<1> DEFINE on == [rd EXCEPT !.done = << >>, !.busy = @ - Len(rd.done)]
<1>1. /\ rd \in Readers /\ rd.busy = Len(rd.queue) + Len(rd.done)
      /\ Distinct(rd.queue) /\ Distinct(rd.done) /\ Apart(rd.queue, rd.done)
  BY DEF ReadsInv, JobsOk
<1>2. /\ rd.queue \in Seq(JobOf) /\ rd.done \in Seq(JobOf) /\ rd.busy \in Nat /\ rd.busy <= DISC_JOBS
  BY <1>1, JobsAre
<1>3. Len(rd.queue) \in Nat /\ Len(rd.done) \in Nat /\ rd.busy - Len(rd.done) = Len(rd.queue)
  BY <1>1, <1>2
<1>4. PICK n \in 0 .. DISC_JOBS : n = rd.busy - Len(rd.done)
  <2>1. PICK a \in Nat : a = Len(rd.queue)
    BY <1>3
  <2>2. PICK b \in Nat : b = Len(rd.done)
    BY <1>3
  <2>3. rd.busy = a + b /\ a + b <= DISC_JOBS /\ DISC_JOBS \in Nat
    BY <1>1, <1>2, <2>1, <2>2, ConstantsAre
  <2>4. a \in 0 .. DISC_JOBS
    BY <2>3, PartOfCount
  <2>. QED
    BY <1>3, <2>1, <2>4
<1>5. PICK e \in Seq(JobOf) : e = << >>
  BY EmptyIs
<1>6. on = [rd EXCEPT !.done = e, !.busy = n]
  BY <1>4, <1>5
<1>7. on \in Readers /\ on.queue = rd.queue /\ on.done = << >> /\ on.busy = Len(rd.queue)
  BY <1>1, <1>3, <1>4, <1>5, <1>6 DEF Readers
<1> HIDE DEF on
<1>8. Range(on.done) = {} /\ Range(s.polled) = {} /\ Len(on.done) = 0 /\ Distinct(on.done)
  BY <1>7, EmptyIs
<1>9. JobsOf(r, on) = JobsOf(s, rd)
  BY <1>7, <1>8 DEF JobsOf
<1>10. Apart(on.queue, on.done) /\ Apart(on.queue, r.polled) /\ Apart(on.done, r.polled)
  BY <1>1, <1>7, <1>8 DEF Apart
<1>11. on.busy = Len(on.queue) + Len(on.done)
  BY <1>3, <1>7, <1>8
<1>12. Distinct(on.queue) /\ Distinct(on.done) /\ Distinct(r.polled)
  BY <1>1, <1>7, <1>8
<1>. QED
  BY <1>7, <1>9, <1>10, <1>11, <1>12, MovesKeep DEF on

(* The reader is done with a job.                                          *)
ReadOf(rd) ==
  [rd EXCEPT !.queue = Tail(@), !.posting = TRUE, !.done = Append(@, Head(rd.queue))]

(* The reader's step: one job moves from the queue to those done.          *)
LEMMA ReadKeep ==
  ASSUME NEW s \in Kernel, NEW rd, ReadsInv(s, rd), rd.queue # << >>
  PROVE  ReadsInv(s, ReadOf(rd)) /\ JobsOf(s, ReadOf(rd)) = JobsOf(s, rd)
<1> DEFINE on == ReadOf(rd)
           h == Head(rd.queue)
<1>1. /\ rd \in Readers /\ rd.busy = Len(rd.queue) + Len(rd.done)
      /\ Distinct(rd.queue) /\ Distinct(rd.done) /\ Distinct(s.polled)
      /\ Apart(rd.queue, rd.done) /\ Apart(rd.queue, s.polled) /\ Apart(rd.done, s.polled)
  BY DEF ReadsInv, JobsOk
<1>2. /\ rd.queue \in Seq(JobOf) /\ rd.done \in Seq(JobOf)
  BY <1>1, JobsAre
<1>3. PICK q \in Seq(JobOf) : q = Tail(rd.queue)
  BY <1>2, TailIs
<1>4. h \in JobOf /\ h \in Range(rd.queue) /\ Len(q) = Len(rd.queue) - 1 /\ Range(rd.queue) = Range(q) \cup {h}
  BY <1>2, <1>3, TailIs
<1>5. PICK d \in Seq(JobOf) : d = Append(rd.done, h)
  BY <1>2, <1>4, AppendIs
<1>6. Len(d) = Len(rd.done) + 1 /\ Range(d) = Range(rd.done) \cup {h}
  BY <1>2, <1>4, <1>5, AppendIs
<1>7. on = [rd EXCEPT !.queue = q, !.posting = TRUE, !.done = d]
  BY <1>3, <1>5 DEF ReadOf
<1>8. on \in Readers /\ on.queue = q /\ on.done = d /\ on.busy = rd.busy
  BY <1>1, <1>7 DEF Readers
<1> HIDE DEF on
<1>9. Distinct(q) /\ \A i \in Range(q) : i.request # h.request
  BY <1>1, <1>2, <1>3, DistinctTail
<1>10. \A i \in Range(rd.done) : i.request # h.request
  BY <1>1, <1>4 DEF Apart
<1> HIDE DEF h
<1>11. Distinct(d)
  BY <1>1, <1>2, <1>4, <1>5, <1>10, DistinctAppend
<1>12. Apart(q, d) /\ Apart(q, s.polled) /\ Apart(d, s.polled)
  BY <1>1, <1>4, <1>6, <1>9 DEF Apart
<1>13. JobsOf(s, on) = JobsOf(s, rd)
  BY <1>4, <1>6, <1>8 DEF JobsOf
<1>14. Len(rd.queue) \in Nat /\ Len(rd.done) \in Nat
  BY <1>2
<1>15. on.busy = Len(on.queue) + Len(on.done)
  <2>1. PICK a \in Nat : a = Len(rd.queue)
    BY <1>14
  <2>2. PICK b \in Nat : b = Len(rd.done)
    BY <1>14
  <2>3. PICK c \in Nat : c = Len(q)
    <3>1. Len(q) \in Nat
      BY <1>3, LenProperties
    <3>. QED
      BY <3>1
  <2>4. PICK e \in Nat : e = Len(d)
    <3>1. Len(d) \in Nat
      BY <1>5, LenProperties
    <3>. QED
      BY <3>1
  <2>5. c = a - 1 /\ e = b + 1 /\ rd.busy = a + b
    BY <1>1, <1>4, <1>6, <2>1, <2>2, <2>3, <2>4
  <2>6. a + b = c + e
    BY ONLY <2>5
  <2>. QED
    BY <1>8, <2>3, <2>4, <2>5, <2>6
<1>. QED
  BY <1>1, <1>8, <1>9, <1>11, <1>12, <1>13, <1>15, MovesKeep DEF on

-----------------------------------------------------------------------------
(***************************************************************************)
(* A read completes.                                                       *)
(***************************************************************************)

(* The kernel with the job to complete taken off.                          *)
Rest(s) == [s EXCEPT !.polled = Tail(@)]

LEMMA RestIs ==
  ASSUME NEW s, ThreadsInv(s), PollOk(s), s.polled # << >>
  PROVE  LET r == Rest(s)
         IN /\ ThreadsInv(r) /\ LiveRuns(r) /\ r.polled = Tail(s.polled) /\ r.polled \in Seq(JobOf)
            /\ r.phase = s.phase /\ r.current = s.current /\ r.frame = s.frame /\ r.ids = s.ids
            /\ r.thread = s.thread /\ r.iosb = s.iosb /\ r.inserted = s.inserted
<1>1. s \in Kernel /\ s.polled \in Seq(JobOf)
  BY KernelIs DEF ThreadsInv
<1>2. PICK p \in Seq(JobOf) : p = Tail(s.polled)
  BY <1>1, TailIs
<1>3. PICK r \in Kernel : r = [s EXCEPT !.polled = p]
  BY <1>1, <1>2 DEF Kernel
<1>4. /\ r.polled = p /\ r.phase = s.phase /\ r.current = s.current /\ r.frame = s.frame /\ r.ids = s.ids
      /\ r.thread = s.thread /\ r.iosb = s.iosb /\ r.inserted = s.inserted
  BY <1>1, <1>3 DEF Kernel
<1>5. Rest(s) = r
  BY <1>2, <1>3 DEF Rest
<1>6. StatesOk(r) /\ LiveRuns(r)
  BY <1>4 DEF ThreadsInv, StatesOk, LiveRuns, InCode, PollOk
<1>7. \A t \in Threads : ContextIn(r, t) = ContextIn(s, t)
  BY <1>4 DEF ContextIn, LiveIn, InCode
<1>8. ThreadsInv(r)
  BY <1>4, <1>6, <1>7, PlainKeeps DEF Alike
<1>. QED
  BY <1>2, <1>4, <1>5, <1>6, <1>8

(* What the completion comes to for a thread th of job: it goes on where   *)
(* it was, its wait ends, or it goes on with what its read came to.        *)
LeftAlone(th, on) == on.state = th.state /\ on.wait = th.wait /\ on.ctx = th.ctx
WaitOver(th, on) ==
  /\ th.state = "waiting" /\ th.wait \in Alertable /\ on.state = "ready" /\ on.wait = "nothing"
ReadOver(th, on, job) ==
  /\ th.state = "waiting" /\ th.wait = job.request
  /\ on.state = "ready" /\ on.wait = job.request /\ on.ctx.eax = "done"

(* The call-back of a read: after what is queued, or at once.              *)
CallsBack(th, on, job) ==
  \/ on.queue = Append(th.queue, job.request)
  \/ th.queue = << >> /\ on.queue = << >>

(* A completion, thread by thread: whose wait ends, and whose queue grows. *)
LEMMA CompleteIs ==
  ASSUME NEW s, ThreadsInv(s), PollOk(s), NEW rd, ReadsInv(s, rd), s.polled # << >>
  PROVE  LET job == Head(s.polled)
             r == DiscReadDone(Rest(s), job)
         IN /\ ThreadsInv(r) /\ LiveRuns(r)
            /\ r.polled = Tail(s.polled)
            /\ r.phase = s.phase /\ r.current = s.current /\ r.frame = s.frame /\ r.ids = s.ids
            /\ r.iosb[job.request] = "done"
            /\ \A q \in Requests : q # job.request => r.iosb[q] = s.iosb[q]
            /\ \A u \in Threads : r.thread[u].id = s.thread[u].id
            /\ \A u \in Threads :
                 IF job.request \in Sync /\ u = job.thread THEN ReadOver(s.thread[u], r.thread[u], job)
                 ELSE LeftAlone(s.thread[u], r.thread[u]) \/ WaitOver(s.thread[u], r.thread[u])
            /\ \A u \in Threads :
                 IF job.request \in HasApc /\ u = job.thread /\ Asker(s, job, Alive)
                   THEN CallsBack(s.thread[u], r.thread[u], job)
                 ELSE r.thread[u].queue = s.thread[u].queue
<1> DEFINE job == Head(s.polled)
           q0 == job.request
           h == job.thread
           a == Rest(s)
           o == Told(a, q0)
           w == Wake(o, job)
           r == DiscReadDone(a, job)
<1>1. s \in Kernel /\ s.polled \in Seq(JobOf) /\ rd \in Readers
  BY KernelIs DEF ThreadsInv, ReadsInv, JobsOk
<1>2. job \in JobOf /\ job \in JobsOf(s, rd)
  BY <1>1, TailIs DEF JobsOf
<1>3. r = CallBack(w, job)
  BY DEF DiscReadDone, Told
<1> HIDE DEF job, r
<1>4. q0 \in Requests /\ h \in Threads /\ q0 \in Apcs /\ q0 \notin Kapcs /\ q0 \notin Alertable
  BY <1>2, ApcAssumption, DiscReadsAssumption DEF JobOf, Apcs, Alertable
<1>5. /\ ThreadsInv(a) /\ LiveRuns(a) /\ a \in Kernel /\ a.polled = Tail(s.polled)
      /\ a.phase = s.phase /\ a.current = s.current /\ a.frame = s.frame /\ a.ids = s.ids
      /\ a.thread = s.thread /\ a.iosb = s.iosb /\ a.inserted = s.inserted
  BY RestIs DEF ThreadsInv
<1> HIDE DEF a
<1>6. /\ ThreadsInv(o) /\ LiveRuns(o) /\ SameFrame(a, o) /\ o \in Kernel
      /\ o.iosb[q0] = "done" /\ \A q \in Requests : q # q0 => o.iosb[q] = a.iosb[q]
      /\ \A t \in Threads : EventEnds(a.thread[t], o.thread[t])
  BY <1>4, <1>5, ToldIs, ToldKeeps
<1> HIDE DEF o
<1>7. \A t \in Threads : /\ o.thread[t].id = s.thread[t].id /\ o.thread[t].queue = s.thread[t].queue
                         /\ LeftAlone(s.thread[t], o.thread[t]) \/ WaitOver(s.thread[t], o.thread[t])
  <2> TAKE t \in Threads
  <2>1. EventEnds(s.thread[t], o.thread[t]) /\ s.thread[t] \in Thread
    BY <1>1, <1>5, <1>6, KernelIs
  <2>. QED
    BY <2>1, ReadyAgainIs DEF EventEnds, LeftAlone, WaitOver, Alertable
<1>8. /\ ThreadsInv(w) /\ LiveRuns(w) /\ SameFrame(o, w) /\ w.iosb = o.iosb /\ w \in Kernel
      /\ \A u \in Threads : u # h => w.thread[u] = o.thread[u]
      /\ IF q0 \in Sync /\ Asker(o, job, {"waiting"})
           THEN w.thread[h] = Woken(o.thread[h]) ELSE w = o
  BY <1>2, <1>6, WakeKeeps DEF ThreadsInv
<1> HIDE DEF w
<1>9. ASSUME q0 \in Sync
      PROVE  /\ s.thread[h].state = "waiting" /\ s.thread[h].wait = q0 /\ s.thread[h].id = job.id
             /\ w.thread[h] = Woken(o.thread[h]) /\ o.thread[h] \in Thread
  <2>1. s.thread[h].id = job.id /\ Waits(s, h, q0)
    BY <1>2, <1>4, <1>9 DEF ReadsInv, JobThreads
  <2>2. LeftAlone(s.thread[h], o.thread[h]) /\ o.thread[h].id = job.id
    BY <1>4, <1>7, <2>1 DEF WaitOver, Waits
  <2>3. Asker(o, job, {"waiting"})
    BY <2>1, <2>2 DEF Asker, LeftAlone, Waits
  <2>. QED
    BY <1>4, <1>6, <1>8, <1>9, <2>1, <2>3, KernelIs DEF Waits
<1>10. \A t \in Threads :
         /\ w.thread[t].id = s.thread[t].id /\ w.thread[t].queue = s.thread[t].queue
         /\ IF q0 \in Sync /\ t = h THEN ReadOver(s.thread[t], w.thread[t], job)
            ELSE LeftAlone(s.thread[t], w.thread[t]) \/ WaitOver(s.thread[t], w.thread[t])
  <2> TAKE t \in Threads
  <2>1. CASE q0 \in Sync /\ t = h
    <3>1. o.thread[h].wait = q0
      BY <1>4, <1>7, <1>9, <2>1 DEF LeftAlone, WaitOver
    <3>. QED
      BY <1>4, <1>7, <1>9, <2>1, <3>1, WokenIs DEF ReadOver
  <2>2. CASE ~(q0 \in Sync /\ t = h)
    <3>1. w.thread[t] = o.thread[t]
      BY <1>8, <2>2
    <3>. QED
      BY <1>7, <2>2, <3>1
  <2>. QED
    BY <2>1, <2>2
<1>11. s.iosb[q0] = "pending" /\ Fresh(w, q0)
  <2>1. s.iosb[q0] = "pending"
    BY <1>2, <1>4 DEF ReadsInv, JobsOk
  <2>2. \A u \in Threads : q0 \notin QueueSet(s, u)
    BY <1>4, <2>1 DEF ReadsInv, PendingUnqueued
  <2>. QED
    BY <1>4, <1>10, <2>1, <2>2 DEF Fresh, QueueSet
<1>12. q0 \in HasApc /\ Asker(s, job, Alive) <=> q0 \in HasApc /\ Asker(w, job, {"ready", "running", "waiting"})
  <2>1. w.thread[h].state \in Alive <=> s.thread[h].state \in Alive
    BY <1>4, <1>10 DEF ReadOver, LeftAlone, WaitOver, Alive
  <2>. QED
    BY <1>4, <1>10, <2>1 DEF Asker, Alive
<1>13. CASE ~(q0 \in HasApc /\ Asker(s, job, Alive))
  <2>1. r = w
    BY <1>3, <1>12, <1>13 DEF CallBack
  <2>. QED
    BY <1>5, <1>6, <1>8, <1>10, <1>13, <2>1 DEF SameFrame, job, r, a
<1>14. CASE q0 \in HasApc /\ Asker(s, job, Alive)
  <2>1. r = NcApcQueue(w, h, q0)
    BY <1>3, <1>12, <1>14 DEF CallBack
  <2>2. ThreadsInv(r) /\ LiveRuns(r)
    BY <1>4, <1>8, <1>11, <2>1, NcApcQueueKeeps
  <2>3. /\ SameFrame(w, r) /\ r.iosb = w.iosb
        /\ \A u \in Threads : u # h => r.thread[u] = w.thread[u]
        /\ QueuedLast(w.thread[h], r.thread[h], q0) \/ BegunAtOnce(w.thread[h], r.thread[h])
    BY <1>4, <1>8, <2>1, NcApcQueueIs
  <2>4. CallsBack(s.thread[h], r.thread[h], job) /\ r.thread[h].id = s.thread[h].id
    BY <1>4, <1>10, <2>3 DEF CallsBack, QueuedLast, BegunAtOnce
  <2>5. IF q0 \in Sync THEN ReadOver(s.thread[h], r.thread[h], job)
        ELSE LeftAlone(s.thread[h], r.thread[h]) \/ WaitOver(s.thread[h], r.thread[h])
    <3>1. CASE q0 \in Sync
      <4>1. w.thread[h].state = "ready"
        BY <1>4, <1>10, <3>1 DEF ReadOver
      <4>2. QueuedLast(w.thread[h], r.thread[h], q0)
        BY <2>3, <4>1 DEF BegunAtOnce
      <4>. QED
        BY <1>4, <1>10, <3>1, <4>2 DEF ReadOver, QueuedLast
    <3>2. CASE q0 \notin Sync
      <4>1. LeftAlone(s.thread[h], w.thread[h]) \/ WaitOver(s.thread[h], w.thread[h])
        BY <1>4, <1>10, <3>2
      <4>. QED
        BY <2>3, <3>2, <4>1 DEF QueuedLast, BegunAtOnce, LeftAlone, WaitOver
    <3>. QED
      BY <3>1, <3>2
  <2>6. \A u \in Threads : r.thread[u].id = s.thread[u].id
    BY <1>10, <2>3, <2>4
  <2>7. \A u \in Threads :
          IF q0 \in Sync /\ u = h THEN ReadOver(s.thread[u], r.thread[u], job)
          ELSE LeftAlone(s.thread[u], r.thread[u]) \/ WaitOver(s.thread[u], r.thread[u])
    BY <1>10, <2>3, <2>5
  <2>8. \A u \in Threads :
          IF q0 \in HasApc /\ u = h /\ Asker(s, job, Alive) THEN CallsBack(s.thread[u], r.thread[u], job)
          ELSE r.thread[u].queue = s.thread[u].queue
    BY <1>10, <1>14, <2>3, <2>4
  <2>9. /\ r.polled = Tail(s.polled)
        /\ r.phase = s.phase /\ r.current = s.current /\ r.frame = s.frame /\ r.ids = s.ids
        /\ r.iosb[q0] = "done" /\ \A q \in Requests : q # q0 => r.iosb[q] = s.iosb[q]
    BY <1>5, <1>6, <1>8, <2>3 DEF SameFrame
  <2>. QED
    BY <2>2, <2>6, <2>7, <2>8, <2>9 DEF job, r, a
<1>. QED
  BY <1>13, <1>14

(* A completion keeps the invariant, and its job is gone.                  *)
LEMMA CompleteKeeps ==
  ASSUME NEW s, ThreadsInv(s), PollOk(s), NEW rd, ReadsInv(s, rd), s.polled # << >>
  PROVE  LET r == DiscReadDone(Rest(s), Head(s.polled))
         IN /\ ThreadsInv(r) /\ PollOk(r) /\ ReadsInv(r, rd)
            /\ JobsOf(s, rd) = JobsOf(r, rd) \cup {Head(s.polled)}
            /\ \A j \in JobsOf(r, rd) : j.request # Head(s.polled).request
<1> DEFINE job == Head(s.polled)
           q0 == job.request
           r == DiscReadDone(Rest(s), job)
<1>1. /\ ThreadsInv(r) /\ LiveRuns(r) /\ r.polled = Tail(s.polled)
      /\ r.phase = s.phase /\ r.current = s.current /\ r.frame = s.frame /\ r.ids = s.ids
      /\ r.iosb[q0] = "done" /\ \A q \in Requests : q # q0 => r.iosb[q] = s.iosb[q]
      /\ \A u \in Threads : r.thread[u].id = s.thread[u].id
      /\ \A u \in Threads :
           IF q0 \in Sync /\ u = job.thread THEN ReadOver(s.thread[u], r.thread[u], job)
           ELSE LeftAlone(s.thread[u], r.thread[u]) \/ WaitOver(s.thread[u], r.thread[u])
      /\ \A u \in Threads :
           IF q0 \in HasApc /\ u = job.thread /\ Asker(s, job, Alive)
             THEN CallsBack(s.thread[u], r.thread[u], job)
           ELSE r.thread[u].queue = s.thread[u].queue
  BY CompleteIs
<1> HIDE DEF r
<1>2. /\ s \in Kernel /\ r \in Kernel /\ s.polled \in Seq(JobOf) /\ rd \in Readers
      /\ rd.queue \in Seq(JobOf) /\ rd.done \in Seq(JobOf)
  BY <1>1, JobsAre, KernelIs DEF ThreadsInv, ReadsInv, JobsOk
<1>3. /\ job \in JobOf /\ job \in Range(s.polled) /\ r.polled \in Seq(JobOf)
      /\ Range(s.polled) = Range(r.polled) \cup {job}
  BY <1>1, <1>2, TailIs
<1>4. Distinct(r.polled) /\ \A i \in Range(r.polled) : i.request # q0
  BY <1>1, <1>2, DistinctTail DEF ReadsInv, JobsOk
<1> HIDE DEF job
<1>5. JobsOf(s, rd) = JobsOf(r, rd) \cup {job}
  BY <1>3 DEF JobsOf
<1>6. \A j \in JobsOf(r, rd) : j.request # q0
  BY <1>3, <1>4 DEF JobsOf, ReadsInv, JobsOk, Apart
<1>7. q0 \in Requests /\ job.thread \in Threads /\ q0 \notin Alertable
  BY <1>3, DiscReadsAssumption DEF JobOf, Alertable
<1>8. JobsOk(r, rd)
  <2>1. Apart(rd.queue, r.polled) /\ Apart(rd.done, r.polled)
    BY <1>3 DEF ReadsInv, JobsOk, Apart
  <2>2. \A q \in Requests : r.iosb[q] = "pending" <=> \E j \in JobsOf(r, rd) : j.request = q
    <3> TAKE q \in Requests
    <3>1. CASE q = q0
      BY <1>1, <1>6, <3>1
    <3>2. CASE q # q0
      <4>1. r.iosb[q] = s.iosb[q] /\ (s.iosb[q] = "pending" <=> \E j \in JobsOf(s, rd) : j.request = q)
        BY <1>1, <3>2 DEF ReadsInv, JobsOk
      <4>. QED
        BY <1>5, <3>2, <4>1
    <3>. QED
      BY <3>1, <3>2
  <2>. QED
    BY <1>4, <2>1, <2>2 DEF ReadsInv, JobsOk
<1>9. PendingUnqueued(r)
  <2> SUFFICES ASSUME NEW q \in Requests, r.iosb[q] = "pending", NEW t \in Threads
               PROVE  q \notin QueueSet(r, t)
    BY DEF PendingUnqueued
  <2>1. q # q0 /\ s.iosb[q] = "pending"
    BY <1>1, <1>7
  <2>2. q \notin QueueSet(s, t)
    BY <2>1 DEF ReadsInv, PendingUnqueued
  <2>3. QueueSet(r, t) \subseteq QueueSet(s, t) \cup {q0}
    <3>1. CASE r.thread[t].queue = s.thread[t].queue
      BY <3>1 DEF QueueSet
    <3>2. CASE CallsBack(s.thread[t], r.thread[t], job)
      <4>1. s.thread[t].queue \in Seq(Apcs) /\ q0 \in Apcs
        BY <1>2, <1>7, KernelIs, ThreadIs DEF Apcs
      <4>2. Range(Append(s.thread[t].queue, q0)) = Range(s.thread[t].queue) \cup {q0}
        BY <4>1, AppendIs
      <4>. QED
        BY <3>2, <4>2 DEF CallsBack, QueueSet
    <3>. QED
      BY <1>1, <3>1, <3>2
  <2>. QED
    BY <2>1, <2>2, <2>3
<1>10. \A t \in Threads, q \in Requests : q # q0 => (Waits(r, t, q) <=> Waits(s, t, q))
  <2> TAKE t \in Threads, q \in Requests
  <2>1. q \notin Alertable
    BY DiscReadsAssumption DEF Alertable
  <2>. QED
    BY <1>1, <2>1 DEF Waits, ReadOver, LeftAlone, WaitOver
<1>11. JobThreads(r, JobsOf(r, rd))
  <2> SUFFICES ASSUME NEW j \in JobsOf(r, rd)
               PROVE  /\ j.id <= r.ids
                      /\ \A t \in Threads : r.thread[t].id = j.id => t = j.thread
                      /\ j.request \in Sync =>
                           /\ r.thread[j.thread].id = j.id
                           /\ \A t \in Threads : Waits(r, t, j.request) <=> t = j.thread
    BY DEF JobThreads
  <2>1. j \in JobsOf(s, rd) /\ j.request # q0 /\ j.request \in Requests /\ j.thread \in Threads
    BY <1>2, <1>5, <1>6, JobsAre
  <2>2. /\ j.id <= s.ids
        /\ \A t \in Threads : s.thread[t].id = j.id => t = j.thread
        /\ j.request \in Sync =>
             /\ s.thread[j.thread].id = j.id
             /\ \A t \in Threads : Waits(s, t, j.request) <=> t = j.thread
    BY <2>1 DEF ReadsInv, JobThreads
  <2>. QED
    BY <1>1, <1>10, <2>1, <2>2
<1>12. SyncOk(r)
  <2> SUFFICES ASSUME NEW t \in Threads, NEW q \in Requests, r.thread[t].wait = q, r.thread[t].state \in Alive
               PROVE  /\ q \in Sync
                      /\ IF r.thread[t].state = "waiting" THEN r.iosb[q] = "pending"
                         ELSE r.iosb[q] = "done" /\ ContextIn(r, t).eax = "done"
    BY DEF SyncOk
  <2>1. CASE q0 \in Sync /\ t = job.thread
    <3>1. ReadOver(s.thread[t], r.thread[t], job) /\ q = q0
      BY <1>1, <2>1 DEF ReadOver
    <3>2. ~LiveIn(r, t)
      BY <1>1, <3>1 DEF ReadOver, LiveIn, LiveRuns
    <3>. QED
      BY <1>1, <2>1, <3>1, <3>2 DEF ReadOver, ContextIn
  <2>2. CASE ~(q0 \in Sync /\ t = job.thread)
    <3>1. q # "nothing"
      BY DiscReadsAssumption
    <3>2. LeftAlone(s.thread[t], r.thread[t])
      BY <1>1, <2>2, <3>1 DEF WaitOver
    <3>3. s.thread[t].wait = q /\ s.thread[t].state \in Alive
      BY <3>2 DEF LeftAlone
    <3>4. /\ q \in Sync
          /\ IF s.thread[t].state = "waiting" THEN s.iosb[q] = "pending"
             ELSE s.iosb[q] = "done" /\ ContextIn(s, t).eax = "done"
      BY <3>3 DEF ReadsInv, SyncOk
    <3>5. s.iosb[q0] = "pending"
      BY <1>5, <1>7 DEF ReadsInv, JobsOk
    <3>6. s.thread[t].state = "waiting" => q # q0
      BY <1>5, <1>7, <2>2, <3>3, <3>4 DEF ReadsInv, JobThreads, Waits
    <3>7. q # q0
      BY <3>4, <3>5, <3>6
    <3>8. ContextIn(r, t) = ContextIn(s, t)
      BY <1>1, <3>2 DEF LeftAlone, ContextIn, LiveIn, InCode
    <3>. QED
      BY <1>1, <3>2, <3>4, <3>7, <3>8 DEF LeftAlone
  <2>. QED
    BY <2>1, <2>2
<1>13. PollOk(r)
  BY <1>1 DEF PollOk
<1>. QED
  BY <1>1, <1>5, <1>6, <1>8, <1>9, <1>11, <1>12, <1>13 DEF ReadsInv, r, job

-----------------------------------------------------------------------------
(***************************************************************************)
(* The title's calls.                                                      *)
(***************************************************************************)

(* The kernel as a call finds it, and where calls are made.                *)
CalledOf(s) ==
  [s EXCEPT !.phase = "exit", !.thread[s.current].wait = "nothing", !.frame.eax = "none"]
AtCall(s) == s.phase = "guest" /\ s.polled = << >>

(* A call begins with the invariant, the last wait of its thread over.     *)
LEMMA CalledIs ==
  ASSUME NEW s, NEW rd, Good(s, rd), AtCall(s)
  PROVE  LET c == CalledOf(s)
             h == s.current
         IN /\ ThreadsInv(c) /\ LiveRuns(c) /\ ReadsInv(c, rd) /\ c \in Kernel /\ h \in Threads
            /\ c.phase = "exit" /\ c.current = h /\ c.ids = s.ids /\ c.event = s.event /\ c.iosb = s.iosb
            /\ c.inserted = s.inserted /\ c.polled = << >>
            /\ c.frame \in Contexts /\ c.frame.place = s.frame.place /\ c.frame.eax = "none"
            /\ \A u \in Threads : u # h => c.thread[u] = s.thread[u]
            /\ s.thread[h].state = "running"
            /\ c.thread[h].state = "running" /\ c.thread[h].wait = "nothing" /\ c.thread[h].id = s.thread[h].id
            /\ c.thread[h].queue = s.thread[h].queue /\ c.thread[h].chains = s.thread[h].chains
<1> DEFINE h == s.current
           th == [s.thread[h] EXCEPT !.wait = "nothing"]
<1>1. s \in Kernel /\ h \in Threads /\ s.thread[h] \in Thread /\ s.frame \in Contexts
  BY KernelIs DEF Good, ThreadsInv
<1>2. th \in Thread /\ th.state = s.thread[h].state /\ th.wait = "nothing" /\ th.id = s.thread[h].id
      /\ th.queue = s.thread[h].queue /\ th.chains = s.thread[h].chains /\ th.ctx = s.thread[h].ctx
  BY <1>1 DEF Thread
<1>3. PICK f \in [Threads -> Thread] : f = [s.thread EXCEPT ![h] = th]
  BY <1>1, <1>2, KernelIs
<1>4. f[h] = th /\ \A u \in Threads : u # h => f[u] = s.thread[u]
  BY <1>1, <1>3, KernelIs
<1>5. PICK g \in Contexts : g = [s.frame EXCEPT !.eax = "none"]
  BY <1>1 DEF Contexts, Statuses
<1>6. g.place = s.frame.place /\ g.eax = "none"
  BY <1>1, <1>5 DEF Contexts
<1>7. PICK p \in Phases : p = "exit"
  BY DEF Phases
<1>8. PICK c \in Kernel : c = [s EXCEPT !.phase = p, !.thread = f, !.frame = g]
  BY <1>1 DEF Kernel
<1>9. /\ c.phase = "exit" /\ c.current = h /\ c.ids = s.ids /\ c.event = s.event /\ c.iosb = s.iosb
      /\ c.inserted = s.inserted /\ c.polled = s.polled /\ c.frame = g /\ c.thread = f
  BY <1>1, <1>7, <1>8 DEF Kernel
<1>10. CalledOf(s) = c
  BY <1>3, <1>5, <1>7, <1>8 DEF CalledOf
<1> HIDE DEF th
<1>11. s.thread[h].state = "running"
  BY DEF Good, ThreadsInv, StatesOk, AtCall
<1>12. InCode(s) /\ InCode(c)
  BY <1>9 DEF InCode, AtCall
<1>13. StatesOk(c) /\ LiveRuns(c)
  <2>1. \A t \in Threads : t # h => c.thread[t].state \in {"free", "ready", "waiting"}
    BY <1>4, <1>9 DEF Good, ThreadsInv, StatesOk
  <2>. QED
    BY <1>2, <1>4, <1>9, <1>11, <1>12, <2>1 DEF StatesOk, LiveRuns
<1>14. \A t \in Threads : ContextIn(s, t) = (IF t = h THEN s.frame ELSE s.thread[t].ctx)
                          /\ ContextIn(c, t) = (IF t = h THEN g ELSE s.thread[t].ctx)
  BY <1>1, <1>2, <1>4, <1>9, <1>11, <1>12 DEF ContextIn, LiveIn
<1>15. ThreadsInv(c)
  <2>1. \A t \in Threads : Alike(s.thread[t], c.thread[t])
    BY <1>2, <1>4, <1>9 DEF Alike
  <2>2. \A t \in Threads : c.thread[t].state \in Alive =>
           s.thread[t].state \in Alive /\ ContextIn(c, t).place = ContextIn(s, t).place
    BY <1>2, <1>4, <1>6, <1>9, <1>14
  <2>3. \A t \in Threads : c.thread[t].state = "waiting" /\ c.thread[t].wait \in Alertable =>
           (s.thread[t].state = "waiting" /\ s.thread[t].wait \in Alertable) \/ ~NcApcPending(s.thread[t])
    BY <1>2, <1>4, <1>9, <1>11
  <2>. QED
    BY <1>9, <1>13, <2>1, <2>2, <2>3, PlainKeeps DEF Good
<1>16. ReadsInv(c, rd)
  <2>1. "nothing" \notin Requests /\ s.ids \in Nat
    BY <1>1, DiscReadsAssumption, KernelIs, ConstantsAre
  <2>2. \A t \in Threads : c.thread[t].queue = s.thread[t].queue /\ c.thread[t].id = s.thread[t].id
                           /\ c.thread[t].state = s.thread[t].state
                           /\ (c.thread[t].wait = s.thread[t].wait \/ (t = h /\ c.thread[t].wait = "nothing"))
    BY <1>2, <1>4, <1>9
  <2>3. \A t \in Threads, q \in Requests : Waits(c, t, q) <=> Waits(s, t, q)
    BY <1>11, <2>1, <2>2 DEF Waits
  <2>4. \A t \in Threads : c.thread[t].wait \in Requests => t # h
    BY <1>2, <1>4, <1>9, <2>1
  <2>5. QuietReads(s, c)
    BY <1>9, <1>14, <2>1, <2>2, <2>3, <2>4 DEF QuietReads, QueueSet
  <2>. QED
    BY <1>1, <2>5, QuietKeeps DEF Good
<1>. QED
  BY <1>1, <1>2, <1>4, <1>6, <1>9, <1>10, <1>11, <1>13, <1>15, <1>16 DEF AtCall

(* What an APC of the thread that runs leaves: it may be out of the queue. *)
Taken(s, r, t) ==
  \/ r.thread[t].queue = s.thread[t].queue /\ r.inserted = s.inserted
  \/ /\ s.thread[t].queue # << >> /\ r.thread[t].queue = Tail(s.thread[t].queue)
     /\ \A b \in Kapcs : b # Head(s.thread[t].queue) => r.inserted[b] = s.inserted[b]

(* The thread that runs goes on in another routine.                        *)
LEMMA GoesOn ==
  ASSUME NEW s, ThreadsInv(s), LiveRuns(s), InCode(s), NEW r \in Kernel,
         r.phase = s.phase, r.current = s.current, r.ids = s.ids, r.iosb = s.iosb, r.polled = s.polled,
         \A u \in Threads : u # s.current => r.thread[u] = s.thread[u],
         r.thread[s.current].state = "running", r.thread[s.current].id = s.thread[s.current].id,
         s.thread[s.current].wait = "nothing", r.thread[s.current].wait = "nothing",
         NestOk(r.thread[s.current], r.frame.place), Taken(s, r, s.current)
  PROVE  /\ ThreadsInv(r) /\ LiveRuns(r)
         /\ \A rd : ReadsInv(s, rd) => ReadsInv(r, rd)
<1> DEFINE h == s.current
<1>1. s \in Kernel /\ h \in Threads /\ s.thread[h].state = "running" /\ s.thread[h].queue \in Seq(Apcs)
  BY KernelIs, ThreadIs DEF ThreadsInv, LiveRuns
<1>2. InCode(r) /\ \A t \in Threads : r.thread[t].id = s.thread[t].id /\ r.thread[t].state = s.thread[t].state
  BY <1>1 DEF InCode
<1>3. StatesOk(r) /\ LiveRuns(r)
  BY <1>1, <1>2 DEF ThreadsInv, StatesOk, LiveRuns
<1>4. \A t \in Threads : t # h => ContextIn(r, t) = s.thread[t].ctx /\ ContextIn(s, t) = s.thread[t].ctx
  BY DEF ContextIn, LiveIn
<1>5. ContextIn(r, h) = r.frame
  BY <1>2 DEF ContextIn, LiveIn
<1>6. NestsOk(r)
  <2> SUFFICES ASSUME NEW t \in Threads, r.thread[t].state \in Alive
               PROVE  NestOk(r.thread[t], ContextIn(r, t).place)
    BY DEF NestsOk
  <2>1. CASE t = h
    BY <1>5, <2>1
  <2>2. CASE t # h
    BY <1>2, <1>4, <2>2 DEF ThreadsInv, NestsOk
  <2>. QED
    BY <2>1, <2>2
<1>7. NoneMissed(r)
  BY <1>1, <1>2 DEF ThreadsInv, NoneMissed
<1>8. /\ \A t \in Threads : QueueSet(r, t) \subseteq QueueSet(s, t) /\ IsInjective(r.thread[t].queue)
      /\ \A b \in QueueSet(r, h) \cap Kapcs : r.inserted[b] = s.inserted[b]
      /\ \A t \in Threads : t # h => \A b \in QueueSet(r, t) \cap Kapcs : r.inserted[b] = s.inserted[b]
  <2>1. \A t \in Threads : IsInjective(s.thread[t].queue)
    BY DEF ThreadsInv, QueuesOk
  <2>2. \A t \in Threads : t # h => r.thread[t].queue = s.thread[t].queue /\ QueueSet(r, t) = QueueSet(s, t)
    BY DEF QueueSet
  <2>3. CASE r.thread[h].queue = s.thread[h].queue /\ r.inserted = s.inserted
    BY <2>1, <2>2, <2>3 DEF QueueSet
  <2>4. CASE /\ s.thread[h].queue # << >> /\ r.thread[h].queue = Tail(s.thread[h].queue)
             /\ \A b \in Kapcs : b # Head(s.thread[h].queue) => r.inserted[b] = s.inserted[b]
    <3>1. /\ Range(s.thread[h].queue) = Range(r.thread[h].queue) \cup {Head(s.thread[h].queue)}
          /\ IsInjective(r.thread[h].queue) /\ Head(s.thread[h].queue) \notin Range(r.thread[h].queue)
          /\ Head(s.thread[h].queue) \in Range(s.thread[h].queue)
      BY <1>1, <2>1, <2>4, TailIs
    <3>2. \A t \in Threads : t # h => Head(s.thread[h].queue) \notin QueueSet(s, t)
      BY <1>1, <3>1 DEF ThreadsInv, QueuesOk, QueueSet
    <3>3. QueueSet(r, h) \subseteq QueueSet(s, h)
      BY <3>1 DEF QueueSet
    <3>4. \A b \in QueueSet(r, h) \cap Kapcs : r.inserted[b] = s.inserted[b]
      BY <2>4, <3>1 DEF QueueSet
    <3>5. \A t \in Threads : t # h => \A b \in QueueSet(r, t) \cap Kapcs : r.inserted[b] = s.inserted[b]
      BY <2>2, <2>4, <3>2
    <3>. QED
      BY <2>1, <2>2, <3>1, <3>3, <3>4, <3>5
  <2>. QED
    BY <2>3, <2>4 DEF Taken
<1>9. QueuesOk(r)
  <2>1. \A t \in Threads : \A b \in QueueSet(s, t) \cap Kapcs : s.inserted[b]
    BY DEF ThreadsInv, QueuesOk
  <2>2. \A t, u \in Threads : t # u => QueueSet(s, t) \cap QueueSet(s, u) = {}
    BY DEF ThreadsInv, QueuesOk
  <2>3. \A t \in Threads : \A b \in QueueSet(r, t) \cap Kapcs : r.inserted[b]
    BY <1>8, <2>1
  <2>4. \A t, u \in Threads : t # u => QueueSet(r, t) \cap QueueSet(r, u) = {}
    BY <1>8, <2>2
  <2>. QED
    BY <1>8, <2>3, <2>4 DEF QueuesOk
<1>10. IdsOk(r)
  BY <1>2 DEF ThreadsInv, IdsOk
<1>11. QuietReads(s, r)
  <2>1. "nothing" \notin Requests /\ s.ids \in Nat
    BY <1>1, DiscReadsAssumption, KernelIs, ConstantsAre
  <2>2. \A t \in Threads, q \in Requests : Waits(r, t, q) <=> Waits(s, t, q)
    <3>1. \A t \in Threads : r.thread[t].wait = s.thread[t].wait
      BY <1>1
    <3>. QED
      BY <1>2, <3>1 DEF Waits
  <2>3. \A t \in Threads : r.thread[t].wait \in Requests => t # h
    BY <2>1
  <2>. QED
    BY <1>2, <1>4, <1>8, <2>1, <2>2, <2>3 DEF QuietReads
<1>. QED
  BY <1>1, <1>3, <1>6, <1>7, <1>9, <1>10, <1>11, QuietKeeps DEF ThreadsInv

-----------------------------------------------------------------------------
(***************************************************************************)
(* The way back to the guest, and the scheduler.                           *)
(***************************************************************************)

(* What the promise is about does not change.                              *)
SameThreads(s, r) ==
  \A t \in Threads : /\ r.thread[t].id = s.thread[t].id /\ r.thread[t].queue = s.thread[t].queue
                     /\ r.thread[t].state \in Alive <=> s.thread[t].state \in Alive
Unchanged(s, rd, r, on) ==
  SameThreads(s, r) /\ r.iosb = s.iosb /\ JobsOf(r, on) = JobsOf(s, rd)

(* The kernel in another phase.                                            *)
Phased(s, p) == [s EXCEPT !.phase = p]

LEMMA PhasedIs ==
  ASSUME NEW s \in Kernel, NEW p \in Phases
  PROVE  LET r == Phased(s, p)
         IN /\ r \in Kernel /\ r.phase = p /\ r.current = s.current /\ r.frame = s.frame /\ r.thread = s.thread
            /\ r.event = s.event /\ r.iosb = s.iosb /\ r.inserted = s.inserted /\ r.ids = s.ids
            /\ r.polled = s.polled
  BY DEF Phased, Kernel

LEMMA PhasedKeeps ==
  ASSUME NEW s, NEW rd, Good(s, rd), NEW p \in Phases,
         p \in {"guest", "exit", "leave"} <=> InCode(s), s.polled = << >>,
         p = "guest" => s.thread[s.current].state = "running"
  PROVE  Good(Phased(s, p), rd) /\ Unchanged(s, rd, Phased(s, p), rd)
<1>1. s \in Kernel
  BY DEF Good, ThreadsInv
<1>2. PICK r : r = Phased(s, p)
  OBVIOUS
<1>3. /\ r \in Kernel /\ r.phase = p /\ r.current = s.current /\ r.frame = s.frame /\ r.thread = s.thread
      /\ r.event = s.event /\ r.iosb = s.iosb /\ r.inserted = s.inserted /\ r.ids = s.ids
      /\ r.polled = s.polled
  BY <1>1, <1>2, PhasedIs
<1>4. InCode(r) <=> InCode(s)
  BY <1>3 DEF InCode
<1>5. StatesOk(r)
  BY <1>3, <1>4 DEF Good, ThreadsInv, StatesOk
<1>6. \A t \in Threads : ContextIn(r, t) = ContextIn(s, t)
  BY <1>3, <1>4 DEF ContextIn, LiveIn
<1>7. ThreadsInv(r)
  BY <1>3, <1>5, <1>6, PlainKeeps DEF Alike, Good
<1>8. s.ids \in Nat
  BY <1>1, KernelIs, ConstantsAre
<1>9. QuietReads(s, r)
  BY <1>3, <1>6, <1>8 DEF QuietReads, QueueSet, Waits
<1>10. ReadsInv(r, rd)
  BY <1>1, <1>3, <1>9, QuietKeeps DEF Good
<1>11. Unchanged(s, rd, r, rd)
  BY <1>3 DEF Unchanged, SameThreads, JobsOf
<1>. QED
  BY <1>2, <1>3, <1>7, <1>10, <1>11 DEF Good, PollOk

(* The reader after the reads done are taken.                              *)
TakenOf(rd) == [rd EXCEPT !.done = << >>, !.busy = @ - Len(rd.done)]

(* The reads done are taken to be completed.                               *)
LEMMA PolledKeeps ==
  ASSUME NEW s, NEW rd, Good(s, rd), s.polled = << >>, s.phase # "exit", LiveRuns(s)
  PROVE  LET r == [s EXCEPT !.polled = rd.done]
         IN Good(r, TakenOf(rd)) /\ Unchanged(s, rd, r, TakenOf(rd))
<1>1. s \in Kernel /\ rd \in Readers /\ rd.done \in Seq(JobOf)
  BY JobsAre DEF Good, ThreadsInv, ReadsInv, JobsOk
<1>2. PICK r \in Kernel : r = [s EXCEPT !.polled = rd.done]
  BY <1>1 DEF Kernel
<1>3. /\ r.phase = s.phase /\ r.current = s.current /\ r.frame = s.frame /\ r.thread = s.thread
      /\ r.event = s.event /\ r.iosb = s.iosb /\ r.inserted = s.inserted /\ r.ids = s.ids
      /\ r.polled = rd.done
  BY <1>1, <1>2 DEF Kernel
<1>4. /\ InCode(r) <=> InCode(s)
      /\ \A t \in Threads : ContextIn(r, t) = ContextIn(s, t)
  BY <1>3 DEF InCode, ContextIn, LiveIn
<1>5. StatesOk(r) /\ PollOk(r)
  BY <1>3, <1>4 DEF Good, ThreadsInv, StatesOk, PollOk, LiveRuns
<1>6. ThreadsInv(r)
  BY <1>3, <1>4, <1>5, PlainKeeps DEF Alike, Good
<1>7. ReadsInv(r, TakenOf(rd)) /\ JobsOf(r, TakenOf(rd)) = JobsOf(s, rd)
  BY <1>1, <1>3, <1>4, TakenKeep DEF Good, TakenOf
<1>. QED
  BY <1>2, <1>3, <1>5, <1>6, <1>7 DEF Good, Unchanged, SameThreads

(* nc_io_poll.                                                             *)
LEMMA TakeDoneKeeps ==
  ASSUME NEW s, Good(s, reader), s.polled = << >>, s.phase # "exit", LiveRuns(s), work \in BOOLEAN,
         TakeDone(s)
  PROVE  Good(k', reader') /\ Unchanged(s, reader, k', reader') /\ work' \in BOOLEAN
<1>1. CASE work
  <2>1. k' = [s EXCEPT !.polled = reader.done] /\ reader' = TakenOf(reader) /\ work' = FALSE
    BY <1>1 DEF TakeDone, TakenOf
  <2>2. Good([s EXCEPT !.polled = reader.done], TakenOf(reader))
        /\ Unchanged(s, reader, [s EXCEPT !.polled = reader.done], TakenOf(reader))
    BY PolledKeeps
  <2>. QED
    BY <2>1, <2>2
<1>2. CASE ~work
  BY <1>2 DEF TakeDone, Unchanged, SameThreads
<1>. QED
  BY <1>1, <1>2

(* The steps of the way back and of the scheduler, one by one, and those   *)
(* of the reader: each keeps the invariant and, but for CompleteNext and   *)
(* Pick, changes nothing the promise is about.                             *)
LEMMA InterruptKeeps ==
  ASSUME Good(k, reader), work \in BOOLEAN, Interrupt
  PROVE  Good(k', reader') /\ Unchanged(k, reader, k', reader') /\ work' \in BOOLEAN
<1>1. k' = Phased(k, "exit") /\ reader' = reader /\ work' = work
  BY DEF Interrupt, Phased
<1>2. InCode(k) /\ k.polled = << >> /\ "exit" \in Phases
  BY DEF Interrupt, InGuest, InCode, Phases
<1>3. Good(Phased(k, "exit"), reader) /\ Unchanged(k, reader, Phased(k, "exit"), reader)
  BY <1>2, PhasedKeeps
<1>. QED
  BY <1>1, <1>3

LEMMA PollKeeps ==
  ASSUME Good(k, reader), work \in BOOLEAN, Poll
  PROVE  Good(k', reader') /\ Unchanged(k, reader, k', reader') /\ work' \in BOOLEAN
<1> DEFINE s == Phased(k, "leave")
<1>1. InCode(k) /\ k.polled = << >> /\ "leave" \in Phases
  BY DEF Poll, InCode, Phases
<1>2. Good(s, reader) /\ Unchanged(k, reader, s, reader)
  BY <1>1, PhasedKeeps
<1>3. CASE MayPoll
  <2>1. TakeDone(s)
    BY <1>3 DEF Poll, Phased
  <2>2. s.polled = << >> /\ s.phase = "leave" /\ s.thread[s.current].state = "running"
    BY <1>1, <1>3, PhasedIs DEF MayPoll, Current, Good, ThreadsInv
  <2> HIDE DEF s
  <2>3. Good(k', reader') /\ Unchanged(s, reader, k', reader') /\ work' \in BOOLEAN
    BY <1>2, <2>1, <2>2, TakeDoneKeeps DEF LiveRuns
  <2>. QED
    BY <1>2, <2>3 DEF Unchanged, SameThreads
<1>4. CASE ~MayPoll
  <2>1. k' = s /\ reader' = reader /\ work' = work
    BY <1>4 DEF Poll, Phased
  <2>. QED
    BY <1>2, <2>1
<1>. QED
  BY <1>3, <1>4

LEMMA CompleteNextKeeps ==
  ASSUME Good(k, reader), work \in BOOLEAN, CompleteNext
  PROVE  Good(k', reader') /\ work' \in BOOLEAN
<1>1. k' = DiscReadDone(Rest(k), Head(k.polled)) /\ reader' = reader /\ work' = work /\ k.polled # << >>
  BY DEF CompleteNext, Rest
<1>. QED
  BY <1>1, CompleteKeeps DEF Good

LEMMA BackToGuestKeeps ==
  ASSUME Good(k, reader), work \in BOOLEAN, BackToGuest
  PROVE  Good(k', reader') /\ Unchanged(k, reader, k', reader') /\ work' \in BOOLEAN
<1>1. k' = Phased(k, "guest") /\ reader' = reader /\ work' = work
  BY DEF BackToGuest, Phased
<1>2. InCode(k) /\ k.polled = << >> /\ "guest" \in Phases /\ k.thread[k.current].state = "running"
  BY DEF BackToGuest, InCode, Phases, Current
<1>3. Good(Phased(k, "guest"), reader) /\ Unchanged(k, reader, Phased(k, "guest"), reader)
  BY <1>2, PhasedKeeps
<1>. QED
  BY <1>1, <1>3

LEMMA IdleKeeps ==
  ASSUME Good(k, reader), work \in BOOLEAN, Idle
  PROVE  Good(k', reader') /\ Unchanged(k, reader, k', reader') /\ work' \in BOOLEAN
<1>1. k' = Phased(k, "pass") /\ reader' = reader /\ work' = work
  BY DEF Idle, Phased
<1>2. ~InCode(k) /\ k.polled = << >> /\ "pass" \in Phases
  BY DEF Idle, InCode, Phases
<1>3. Good(Phased(k, "pass"), reader) /\ Unchanged(k, reader, Phased(k, "pass"), reader)
  BY <1>2, PhasedKeeps
<1>. QED
  BY <1>1, <1>3

LEMMA PassKeeps ==
  ASSUME Good(k, reader), work \in BOOLEAN, Pass
  PROVE  Good(k', reader') /\ Unchanged(k, reader, k', reader') /\ work' \in BOOLEAN
<1> DEFINE s == Phased(k, "pick")
<1>1. ~InCode(k) /\ k.polled = << >> /\ "pick" \in Phases
  BY DEF Pass, InCode, Phases
<1>2. Good(s, reader) /\ Unchanged(k, reader, s, reader)
  BY <1>1, PhasedKeeps
<1>3. TakeDone(s)
  BY DEF Pass, Phased
<1>4. s.polled = << >> /\ s.phase = "pick"
  BY <1>1, PhasedIs DEF Good, ThreadsInv
<1> HIDE DEF s
<1>5. Good(k', reader') /\ Unchanged(s, reader, k', reader') /\ work' \in BOOLEAN
  BY <1>2, <1>3, <1>4, TakeDoneKeeps DEF LiveRuns, InCode
<1>. QED
  BY <1>2, <1>5 DEF Unchanged, SameThreads

LEMMA DrainKeeps ==
  ASSUME Good(k, reader), work \in BOOLEAN, Drain
  PROVE  Good(k', reader') /\ Unchanged(k, reader, k', reader') /\ work' \in BOOLEAN
<1>1. k.polled = << >> /\ k.phase # "exit" /\ LiveRuns(k)
  BY DEF Drain, InGuest, Current, LiveRuns, InCode
<1>2. reader \in Readers /\ reader.done \in Seq(JobOf)
  BY JobsAre DEF Good, ReadsInv, JobsOk, ThreadsInv
<1>3. reader.busy - Len(reader.done) = 0
  BY <1>2 DEF Drain
<1>4. k' = [k EXCEPT !.polled = reader.done] /\ reader' = TakenOf(reader) /\ work' = FALSE
  BY <1>3 DEF Drain, TakenOf
<1>5. Good([k EXCEPT !.polled = reader.done], TakenOf(reader))
      /\ Unchanged(k, reader, [k EXCEPT !.polled = reader.done], TakenOf(reader))
  BY <1>1, PolledKeeps
<1>. QED
  BY <1>4, <1>5

LEMMA ReaderReadKeeps ==
  ASSUME Good(k, reader), work \in BOOLEAN, ReaderRead
  PROVE  Good(k', reader') /\ Unchanged(k, reader, k', reader') /\ work' \in BOOLEAN
<1>1. k' = k /\ reader' = ReadOf(reader) /\ work' = work /\ reader.queue # << >>
  BY DEF ReaderRead, ReadOf
<1>2. ReadsInv(k, ReadOf(reader)) /\ JobsOf(k, ReadOf(reader)) = JobsOf(k, reader)
  BY <1>1, ReadKeep DEF Good, ThreadsInv
<1>. QED
  BY <1>1, <1>2 DEF Good, Unchanged, SameThreads

LEMMA ReaderPostKeeps ==
  ASSUME Good(k, reader), work \in BOOLEAN, ReaderPost
  PROVE  Good(k', reader') /\ Unchanged(k, reader, k', reader') /\ work' \in BOOLEAN
<1>1. k' = k /\ reader' = [reader EXCEPT !.posting = FALSE] /\ work' = TRUE
  BY DEF ReaderPost
<1>2. k \in Kernel /\ reader \in Readers
  BY DEF Good, ThreadsInv, ReadsInv, JobsOk
<1>3. PICK on \in Readers : on = [reader EXCEPT !.posting = FALSE]
  BY <1>2 DEF Readers
<1>4. on.queue = reader.queue /\ on.done = reader.done /\ on.busy = reader.busy
  BY <1>2, <1>3 DEF Readers
<1>5. JobsOf(k, on) = JobsOf(k, reader)
  BY <1>4 DEF JobsOf
<1>6. ReadsInv(k, on)
  BY <1>2, <1>4, <1>5 DEF Good, ReadsInv, JobsOk
<1>. QED
  BY <1>1, <1>3, <1>5, <1>6 DEF Good, Unchanged, SameThreads

LEMMA ScheduleKeeps ==
  ASSUME Good(k, reader), work \in BOOLEAN, Schedule
  PROVE  Good(k', reader') /\ Unchanged(k, reader, k', reader') /\ work' \in BOOLEAN
<1> DEFINE h == k.current
           now == k.thread[h]
           saved == IF now.state = "terminated" THEN now ELSE [now EXCEPT !.ctx = k.frame]
           th == IF saved.state = "running" THEN [saved EXCEPT !.state = "ready"] ELSE saved
<1>1. /\ k' = [k EXCEPT !.phase = "pass", !.frame = Nowhere, !.thread[h] = th]
      /\ reader' = reader /\ work' = work
  BY DEF Schedule, Current
<1>2. k \in Kernel /\ h \in Threads /\ now \in Thread /\ k.frame \in Contexts /\ Nowhere \in Contexts
  BY KernelIs, ConstantsAre DEF Good, ThreadsInv
<1>3. InCode(k) /\ k.polled = << >> /\ now.state \in {"running", "waiting", "terminated"}
  BY DEF Schedule, InCode, Good, ThreadsInv, StatesOk
<1>4. /\ th \in Thread /\ th.id = now.id /\ th.queue = now.queue /\ th.chains = now.chains /\ th.wait = now.wait
      /\ th.state = (IF now.state = "running" THEN "ready" ELSE now.state)
      /\ now.state # "terminated" => th.ctx = k.frame
  <2>1. /\ saved \in Thread /\ saved.id = now.id /\ saved.queue = now.queue /\ saved.chains = now.chains
        /\ saved.wait = now.wait /\ saved.state = now.state
        /\ now.state # "terminated" => saved.ctx = k.frame
    BY <1>2 DEF Thread
  <2> HIDE DEF saved
  <2>. QED
    BY <2>1 DEF Thread
<1> HIDE DEF th
<1>5. PICK f \in [Threads -> Thread] : f = [k.thread EXCEPT ![h] = th]
  BY <1>2, <1>4, KernelIs
<1>6. f[h] = th /\ \A u \in Threads : u # h => f[u] = k.thread[u]
  BY <1>2, <1>5, KernelIs
<1>7. PICK p \in Phases : p = "pass"
  BY DEF Phases
<1>8. PICK g \in Contexts : g = Nowhere
  BY <1>2
<1>9. PICK r \in Kernel : r = [k EXCEPT !.phase = p, !.frame = g, !.thread = f]
  BY <1>2 DEF Kernel
<1>10. /\ r.phase = "pass" /\ r.current = h /\ r.ids = k.ids /\ r.event = k.event /\ r.iosb = k.iosb
       /\ r.inserted = k.inserted /\ r.polled = k.polled /\ r.thread = f
  BY <1>2, <1>7, <1>9 DEF Kernel
<1>11. k' = r
  BY <1>1, <1>5, <1>7, <1>8, <1>9
<1>12. ~InCode(r) /\ \A t \in Threads : ContextIn(r, t) = r.thread[t].ctx
  BY <1>10 DEF InCode, ContextIn, LiveIn
<1>13. \A t \in Threads : t # h => ContextIn(k, t) = k.thread[t].ctx
  BY DEF ContextIn, LiveIn
<1>14. now.state # "terminated" => ContextIn(k, h) = k.frame
  BY <1>3 DEF ContextIn, LiveIn
<1>15. StatesOk(r)
  <2>1. \A t \in Threads : t # h => r.thread[t].state \in {"free", "ready", "waiting"}
    BY <1>6, <1>10 DEF Good, ThreadsInv, StatesOk
  <2>. QED
    BY <1>3, <1>4, <1>6, <1>10, <1>12, <2>1 DEF StatesOk
<1>16. ThreadsInv(r)
  <2>1. \A t \in Threads : Alike(k.thread[t], r.thread[t])
    BY <1>3, <1>4, <1>6, <1>10 DEF Alike
  <2>2. \A t \in Threads : r.thread[t].state \in Alive =>
           k.thread[t].state \in Alive /\ ContextIn(r, t).place = ContextIn(k, t).place
    BY <1>3, <1>4, <1>6, <1>10, <1>12, <1>13, <1>14 DEF Alive
  <2>3. \A t \in Threads : r.thread[t].state = "waiting" /\ r.thread[t].wait \in Alertable =>
           (k.thread[t].state = "waiting" /\ k.thread[t].wait \in Alertable) \/ ~NcApcPending(k.thread[t])
    BY <1>3, <1>4, <1>6, <1>10
  <2>. QED
    BY <1>10, <1>15, <2>1, <2>2, <2>3, PlainKeeps DEF Good
<1>17. ReadsInv(r, reader)
  <2>1. k.ids \in Nat
    BY <1>2, KernelIs, ConstantsAre
  <2>2. \A t \in Threads : /\ r.thread[t].queue = k.thread[t].queue /\ r.thread[t].id = k.thread[t].id
                           /\ r.thread[t].wait = k.thread[t].wait
                           /\ r.thread[t].state = "waiting" <=> k.thread[t].state = "waiting"
    BY <1>3, <1>4, <1>6, <1>10
  <2>3. \A t \in Threads, q \in Requests : Waits(r, t, q) <=> Waits(k, t, q)
    BY <2>2 DEF Waits
  <2>4. \A t \in Threads : r.thread[t].state \in {"ready", "running"} =>
          k.thread[t].state \in {"ready", "running"} /\ ContextIn(r, t) = ContextIn(k, t)
    BY <1>3, <1>4, <1>6, <1>10, <1>12, <1>13, <1>14
  <2>5. QuietReads(k, r)
    BY <1>10, <2>1, <2>2, <2>3, <2>4 DEF QuietReads, QueueSet
  <2>. QED
    BY <1>2, <2>5, QuietKeeps DEF Good
<1>18. Unchanged(k, reader, r, reader)
  <2>1. SameThreads(k, r)
    BY <1>3, <1>4, <1>6, <1>10 DEF SameThreads, Alive
  <2>. QED
    BY <1>10, <2>1 DEF Unchanged, JobsOf
<1>19. PollOk(r)
  BY <1>3, <1>10 DEF PollOk
<1>. QED
  BY <1>1, <1>11, <1>16, <1>17, <1>18, <1>19 DEF Good

(* A slot that is free, or has a thread that starts.                       *)
LEMMA BlankKeeps ==
  ASSUME NEW s, ThreadsInv(s), NEW r \in Kernel, r.inserted = s.inserted, StatesOk(r), IdsOk(r),
         NEW h \in Threads, r.thread[h].queue = << >>, r.thread[h].chains = << >>,
         r.thread[h].state \in {"free", "ready"}, r.thread[h].state = "ready" => ContextIn(r, h).place = InTitle,
         \A t \in Threads : t # h => Alike(s.thread[t], r.thread[t]),
         \A t \in Threads : t # h /\ r.thread[t].state \in Alive =>
           s.thread[t].state \in Alive /\ ContextIn(r, t).place = ContextIn(s, t).place,
         \A t \in Threads : t # h /\ r.thread[t].state = "waiting" /\ r.thread[t].wait \in Alertable =>
           s.thread[t].state = "waiting" /\ s.thread[t].wait \in Alertable
  PROVE  ThreadsInv(r)
<1>1. \A t \in Threads : t # h =>
        /\ r.thread[t].queue = s.thread[t].queue /\ r.thread[t].chains = s.thread[t].chains
        /\ QueueSet(r, t) = QueueSet(s, t)
  BY DEF Alike, QueueSet
<1>2. QueueSet(r, h) = {} /\ IsInjective(r.thread[h].queue)
  BY EmptyIs DEF QueueSet
<1>3. NestsOk(r)
  <2> SUFFICES ASSUME NEW t \in Threads, r.thread[t].state \in Alive
               PROVE  NestOk(r.thread[t], ContextIn(r, t).place)
    BY DEF NestsOk
  <2>1. CASE t = h
    <3>1. ContextIn(r, t).place = InTitle /\ Len(r.thread[t].chains) = 0 /\ DOMAIN r.thread[t].chains = {}
      BY <2>1 DEF Alive
    <3>2. At(r.thread[t].chains, 0) = InTitle
      BY DEF At, InTitle
    <3>. QED
      BY <3>1, <3>2, ConstantsAre DEF NestOk
  <2>2. CASE t # h
    <3>1. NestOk(s.thread[t], ContextIn(s, t).place)
      BY <2>2 DEF ThreadsInv, NestsOk
    <3>. QED
      BY <1>1, <2>2, <3>1 DEF NestOk
  <2>. QED
    BY <2>1, <2>2
<1>4. NoneMissed(r)
  <2> SUFFICES ASSUME NEW t \in Threads, r.thread[t].state = "waiting", r.thread[t].wait \in Alertable
               PROVE  ~NcApcPending(r.thread[t])
    BY DEF NoneMissed
  <2>1. t # h
    OBVIOUS
  <2>2. ~NcApcPending(s.thread[t])
    BY <2>1 DEF ThreadsInv, NoneMissed
  <2>. QED
    BY <1>1, <2>1, <2>2 DEF NcApcPending
<1>5. QueuesOk(r)
  <2>1. \A t \in Threads : IsInjective(s.thread[t].queue)
    BY DEF ThreadsInv, QueuesOk
  <2>2. \A t \in Threads : \A a \in QueueSet(s, t) \cap Kapcs : s.inserted[a]
    BY DEF ThreadsInv, QueuesOk
  <2>3. \A t, u \in Threads : t # u => QueueSet(s, t) \cap QueueSet(s, u) = {}
    BY DEF ThreadsInv, QueuesOk
  <2>4. \A t \in Threads : IsInjective(r.thread[t].queue)
    BY <1>1, <1>2, <2>1
  <2>5. \A t \in Threads : \A a \in QueueSet(r, t) \cap Kapcs : r.inserted[a]
    BY <1>1, <1>2, <2>2
  <2>6. \A t, u \in Threads : t # u => QueueSet(r, t) \cap QueueSet(r, u) = {}
    BY <1>1, <1>2, <2>3
  <2>. QED
    BY <2>4, <2>5, <2>6 DEF QueuesOk
<1>. QED
  BY <1>3, <1>4, <1>5 DEF ThreadsInv

(* The slot u of a thread that ended is free.                              *)
FreedSlot(s, r, u) ==
  /\ s.thread[u].state = "terminated" /\ r.thread[u].id = 0 /\ r.thread[u].queue = << >>
  /\ r.thread[u].state = "free"
  /\ \A t \in Threads : t # u => /\ r.thread[t].id = s.thread[t].id /\ r.thread[t].queue = s.thread[t].queue
                                 /\ r.thread[t].state \in Alive <=> s.thread[t].state \in Alive

LEMMA FreeIs ==
  /\ Free \in Thread /\ Free.id = 0 /\ Free.state = "free" /\ Free.queue = << >> /\ Free.chains = << >>
  /\ Free.wait = "nothing"
<1>1. << >> \in Seq(Apcs) /\ << >> \in Seq(Chains)
  BY EmptyIs
<1>2. [place |-> InTitle, eax |-> "none"] \in Contexts
  BY ConstantsAre DEF Nowhere
<1>3. Free = [state |-> "free", id |-> 0, queue |-> << >>, chains |-> << >>,
              wait |-> "nothing", ctx |-> [place |-> InTitle, eax |-> "none"]]
  BY DEF Free, NewThread
<1>4. 0 \in 0 .. MaxThreadId
  BY ConstantsAre
<1>. QED
  BY <1>1, <1>2, <1>3, <1>4 DEF Thread

(* The switch: a slot may become free.                                     *)
LEMMA PickKeeps ==
  ASSUME Good(k, reader), work \in BOOLEAN, NEW t \in Threads, Pick(t)
  PROVE  /\ Good(k', reader') /\ work' \in BOOLEAN
         /\ k'.iosb = k.iosb /\ JobsOf(k', reader') = JobsOf(k, reader)
         /\ SameThreads(k, k') \/ FreedSlot(k, k', k.current)
<1> DEFINE h == k.current
           ended == k.thread[h].state = "terminated"
           freed == IF Current.state = "terminated" THEN [k EXCEPT !.thread[k.current] = Free] ELSE k
           on == [k.thread[t] EXCEPT !.state = "running", !.ctx = Nowhere]
<1>1. /\ k' = [freed EXCEPT !.phase = "guest", !.current = t, !.frame = k.thread[t].ctx,
                            !.thread[t] = [@ EXCEPT !.state = "running", !.ctx = Nowhere]]
      /\ reader' = reader /\ work' = work
  BY DEF Pick
<1>2. k \in Kernel /\ h \in Threads /\ k.thread[t] \in Thread /\ k.thread[t].ctx \in Contexts
      /\ Nowhere \in Contexts
  BY KernelIs, ThreadIs, ConstantsAre DEF Good, ThreadsInv
<1>3. /\ ~InCode(k) /\ k.polled = << >> /\ k.thread[t].state = "ready"
      /\ k.thread[h].state \in {"ready", "waiting", "terminated"}
      /\ ended => t # h
  BY DEF Pick, Ready, InCode, Good, ThreadsInv, StatesOk
<1>4. PICK c \in Contexts : c = Nowhere
  BY <1>2
<1>5. /\ on \in Thread /\ on.state = "running" /\ on.id = k.thread[t].id /\ on.queue = k.thread[t].queue
      /\ on.chains = k.thread[t].chains /\ on.wait = k.thread[t].wait
  <2>1. on = [k.thread[t] EXCEPT !.state = "running", !.ctx = c]
    BY <1>4
  <2>. QED
    BY <1>2, <2>1 DEF Thread
<1>6. PICK m \in Kernel : m = freed
  <2>1. CASE ended
    <3>1. freed = With(k, h, Free)
      BY <2>1 DEF With, Current
    <3>. QED
      BY <1>2, <3>1, FreeIs, WithIs
  <2>2. CASE ~ended
    BY <1>2, <2>2 DEF Current
  <2>. QED
    BY <2>1, <2>2
<1>7. /\ SameFrame(k, m) /\ m.event = k.event /\ m.iosb = k.iosb /\ m.inserted = k.inserted
      /\ \A u \in Threads : m.thread[u] = IF ended /\ u = h THEN Free ELSE k.thread[u]
  <2>1. CASE ended
    <3>1. m = With(k, h, Free)
      BY <1>6, <2>1 DEF With, Current
    <3>2. /\ SameFrame(k, m) /\ m.event = k.event /\ m.iosb = k.iosb /\ m.inserted = k.inserted
          /\ m.thread[h] = Free /\ \A u \in Threads : u # h => m.thread[u] = k.thread[u]
      <4> DEFINE z == With(k, h, Free)
      <4>1. Free \in Thread
        BY FreeIs
      <4>2. /\ SameFrame(k, z) /\ z.event = k.event /\ z.iosb = k.iosb /\ z.inserted = k.inserted
            /\ z.thread[h] = Free /\ \A u \in Threads : u # h => z.thread[u] = k.thread[u]
        <5>1. k \in Kernel /\ h \in Threads
          BY <1>2
        <5> HIDE DEF h, ended, freed, on
        <5>. QED
          BY <5>1, <4>1, WithIs
      <4> HIDE DEF z
      <4>3. m = z
        BY <3>1 DEF z
      <4>. QED
        BY <4>2, <4>3
    <3> HIDE DEF h
    <3>. QED
      BY <2>1, <3>2
  <2>2. CASE ~ended
    BY <1>6, <2>2 DEF Current, SameFrame
  <2>. QED
    BY <2>1, <2>2
<1>8. m.thread[t] = k.thread[t]
  BY <1>3, <1>7
<1>9. k' = [m EXCEPT !.phase = "guest", !.current = t, !.frame = k.thread[t].ctx, !.thread[t] = on]
  BY <1>1, <1>6, <1>8
<1> HIDE DEF on, freed
<1>10. PICK f \in [Threads -> Thread] : f = [m.thread EXCEPT ![t] = on]
  BY <1>5, KernelIs
<1>11. f[t] = on /\ \A u \in Threads : u # t => f[u] = m.thread[u]
  BY <1>10, KernelIs
<1>12. PICK p \in Phases : p = "guest"
  BY DEF Phases
<1>13. PICK g \in Contexts : g = k.thread[t].ctx
  BY <1>2
<1>14. PICK r \in Kernel : r = [m EXCEPT !.phase = p, !.current = t, !.frame = g, !.thread = f]
  BY DEF Kernel
<1>15. /\ r.phase = "guest" /\ r.current = t /\ r.ids = k.ids /\ r.iosb = k.iosb /\ r.frame = k.thread[t].ctx
       /\ r.inserted = k.inserted /\ r.polled = k.polled /\ r.thread = f
  BY <1>7, <1>12, <1>13, <1>14 DEF Kernel, SameFrame
<1>16. k' = r
  BY <1>9, <1>10, <1>12, <1>13, <1>14
<1>17. \A u \in Threads : r.thread[u] = IF u = t THEN on ELSE IF ended /\ u = h THEN Free ELSE k.thread[u]
  BY <1>7, <1>11, <1>15
<1>18. /\ InCode(r) /\ ContextIn(r, t) = k.thread[t].ctx
       /\ \A u \in Threads : u # t => ContextIn(r, u) = r.thread[u].ctx
       /\ \A u \in Threads : ContextIn(k, u) = k.thread[u].ctx
  BY <1>3, <1>5, <1>15, <1>17 DEF InCode, ContextIn, LiveIn
<1>19. StatesOk(r)
  <2>1. \A u \in Threads : u # t => r.thread[u].state \in {"free", "ready", "waiting"}
    <3>1. \A u \in Threads : u # h => k.thread[u].state \in {"free", "ready", "waiting"}
      BY DEF Good, ThreadsInv, StatesOk
    <3>. QED
      BY <1>3, <1>17, <3>1, FreeIs
  <2>. QED
    BY <1>5, <1>15, <1>17, <1>18, <2>1 DEF StatesOk
<1>20. \A u \in Threads : ~(ended /\ u = h) =>
         /\ Alike(k.thread[u], r.thread[u]) /\ r.thread[u].wait = k.thread[u].wait
         /\ r.thread[u].state = "waiting" <=> k.thread[u].state = "waiting"
         /\ r.thread[u].state \in Alive <=> k.thread[u].state \in Alive
         /\ ContextIn(r, u) = ContextIn(k, u)
  BY <1>3, <1>5, <1>17, <1>18 DEF Alike, Alive
<1>21. IdsOk(r)
  <2>1. IdsOk(k)
    BY DEF Good, ThreadsInv
  <2>2. \A u \in Threads :
          \/ r.thread[u].id = k.thread[u].id /\ (r.thread[u].state = "free" <=> k.thread[u].state = "free")
          \/ r.thread[u].id = 0 /\ r.thread[u].state = "free"
    BY <1>3, <1>17, <1>20, FreeIs DEF Alike
  <2>3. 0 \in 0 .. k.ids
    BY <1>2, KernelIs
  <2>. QED
    BY <1>15, <2>1, <2>2, <2>3 DEF IdsOk
<1>22. ThreadsInv(r)
  <2>1. CASE ended
    BY <1>2, <1>3, <1>15, <1>17, <1>19, <1>20, <1>21, <2>1, FreeIs, BlankKeeps DEF Good
  <2>2. CASE ~ended
    BY <1>15, <1>19, <1>20, <2>2, PlainKeeps DEF Good
  <2>. QED
    BY <2>1, <2>2
<1>23. ReadsInv(r, reader)
  <2>1. k.ids \in Nat /\ "nothing" \notin Requests
    BY <1>2, KernelIs, ConstantsAre, DiscReadsAssumption
  <2>2. ended => /\ r.thread[h].id = 0 /\ r.thread[h].queue = << >> /\ r.thread[h].wait = "nothing"
                 /\ r.thread[h].state = "free" /\ QueueSet(r, h) = {} /\ k.thread[h].state = "terminated"
    BY <1>2, <1>3, <1>17, FreeIs, EmptyIs DEF QueueSet
  <2>3. \A u \in Threads : ~(ended /\ u = h) =>
          /\ QueueSet(r, u) = QueueSet(k, u) /\ r.thread[u].id = k.thread[u].id
          /\ r.thread[u].wait = k.thread[u].wait
          /\ r.thread[u].state = "waiting" <=> k.thread[u].state = "waiting"
          /\ r.thread[u].state \in {"ready", "running"} => k.thread[u].state \in {"ready", "running"}
          /\ ContextIn(r, u) = ContextIn(k, u)
    BY <1>20 DEF Alike, QueueSet, Alive
  <2>4. \A u \in Threads, q \in Requests : Waits(r, u, q) <=> Waits(k, u, q)
    BY <2>2, <2>3 DEF Waits
  <2> HIDE DEF ended
  <2>5. QuietReads(k, r)
    BY <1>15, <2>1, <2>2, <2>3, <2>4 DEF QuietReads
  <2>. QED
    BY <1>2, <2>5, QuietKeeps DEF Good
<1>24. SameThreads(k, r) \/ FreedSlot(k, r, h)
  <2>1. CASE ended
    BY <1>2, <1>3, <1>17, <1>20, <2>1, FreeIs DEF FreedSlot, Alike
  <2>2. CASE ~ended
    BY <1>20, <2>2 DEF SameThreads, Alike
  <2>. QED
    BY <2>1, <2>2
<1>25. PollOk(r) /\ JobsOf(r, reader) = JobsOf(k, reader)
  BY <1>3, <1>15 DEF PollOk, JobsOf
<1>. QED
  BY <1>1, <1>15, <1>16, <1>22, <1>23, <1>24, <1>25 DEF Good

-----------------------------------------------------------------------------
(***************************************************************************)
(* The title's calls, one by one.                                          *)
(***************************************************************************)
LEMMA GuestIs ==
  ASSUME InGuest
  PROVE  AtCall(k) /\ Called = CalledOf(k) /\ k.thread[k.current].state = "running"
  BY DEF InGuest, AtCall, Called, CalledOf, Current

(* What Unused means: the request is done, and in no queue, wait or job.   *)
LEMMA UnusedIs ==
  ASSUME Good(k, reader), NEW r \in Requests, Unused(r)
  PROVE  /\ k.iosb[r] = "done"
         /\ \A t \in Threads : r \notin QueueSet(k, t) /\ k.thread[t].wait # r
         /\ \A j \in JobsOf(k, reader) : j.request # r
<1>1. k \in Kernel /\ k.iosb[r] \in {"pending", "done"}
  BY KernelIs DEF Good, ThreadsInv
<1>2. k.iosb[r] = "done"
  BY <1>1 DEF Unused
<1>3. \A t \in Threads : r \notin QueueSet(k, t) /\ k.thread[t].wait # r
  <2> TAKE t \in Threads
  <2>1. k.thread[t].queue \in Seq(Apcs)
    BY <1>1, KernelIs, ThreadIs
  <2>2. ~Contains(k.thread[t].queue, r) /\ k.thread[t].wait # r
    BY DEF Unused
  <2>. QED
    BY <2>1, <2>2, RangeIs DEF QueueSet
<1>4. \A j \in JobsOf(k, reader) : j.request # r
  BY <1>2 DEF Good, ReadsInv, JobsOk
<1>. QED
  BY <1>2, <1>3, <1>4

(* The job of a read, and the kernel as it leaves the read to the reader.  *)
JobIn(s, r) == [request |-> r, thread |-> s.current, id |-> s.thread[s.current].id]
Asked(s, c, r) ==
  LET q == [c EXCEPT !.iosb[r] = "pending", !.frame.eax = "pending", !.event[EventOf[r]] = FALSE]
  IN IF r \in Sync
       THEN [q EXCEPT !.thread[s.current].state = "waiting", !.thread[s.current].wait = r] ELSE q

LEMMA AskedIs ==
  ASSUME NEW s, NEW c \in Kernel, NEW r \in Requests, s.current \in Threads
  PROVE  LET d == Asked(s, c, r)
             h == s.current
         IN /\ d \in Kernel
            /\ d.phase = c.phase /\ d.current = c.current /\ d.ids = c.ids /\ d.inserted = c.inserted
            /\ d.polled = c.polled /\ d.frame.place = c.frame.place
            /\ d.iosb = [c.iosb EXCEPT ![r] = "pending"]
            /\ \A u \in Threads : u # h => d.thread[u] = c.thread[u]
            /\ d.thread[h].id = c.thread[h].id /\ d.thread[h].queue = c.thread[h].queue
            /\ d.thread[h].chains = c.thread[h].chains /\ d.thread[h].ctx = c.thread[h].ctx
            /\ IF r \in Sync THEN d.thread[h].state = "waiting" /\ d.thread[h].wait = r
               ELSE d.thread[h] = c.thread[h]
<1> DEFINE h == s.current
           q == [c EXCEPT !.iosb[r] = "pending", !.frame.eax = "pending", !.event[EventOf[r]] = FALSE]
<1>1. c.frame \in Contexts /\ c.thread[h] \in Thread /\ EventOf[r] \in Events
  BY KernelIs, DiscReadsAssumption
<1>2. PICK i \in [Requests -> {"pending", "done"}] : i = [c.iosb EXCEPT ![r] = "pending"]
  BY KernelIs
<1>3. PICK g \in Contexts : g = [c.frame EXCEPT !.eax = "pending"]
  BY <1>1 DEF Contexts, Statuses
<1>4. g.place = c.frame.place
  BY <1>1, <1>3 DEF Contexts
<1>5. PICK e \in [Events -> BOOLEAN] : e = [c.event EXCEPT ![EventOf[r]] = FALSE]
  BY <1>1, KernelIs
<1>6. PICK m \in Kernel : m = [c EXCEPT !.iosb = i, !.frame = g, !.event = e]
  BY DEF Kernel
<1>7. q = m
  BY <1>2, <1>3, <1>5, <1>6
<1>8. /\ m.phase = c.phase /\ m.current = c.current /\ m.ids = c.ids /\ m.inserted = c.inserted
      /\ m.polled = c.polled /\ m.frame = g /\ m.iosb = i /\ m.thread = c.thread
  BY <1>6 DEF Kernel
<1> HIDE DEF q
<1>9. CASE r \notin Sync
  <2>1. Asked(s, c, r) = m
    BY <1>7, <1>9 DEF Asked, q
  <2>. QED
    BY <1>2, <1>4, <1>8, <1>9, <2>1
<1>10. CASE r \in Sync
  <2> DEFINE th == [c.thread[h] EXCEPT !.state = "waiting", !.wait = r]
             d == With(m, h, th)
  <2>1. /\ th \in Thread /\ th.state = "waiting" /\ th.wait = r /\ th.id = c.thread[h].id
        /\ th.queue = c.thread[h].queue /\ th.chains = c.thread[h].chains /\ th.ctx = c.thread[h].ctx
    BY <1>1 DEF Thread
  <2>2. Asked(s, c, r) = d
    <3>1. Asked(s, c, r) = [m EXCEPT !.thread[h].state = "waiting", !.thread[h].wait = r]
      BY <1>7, <1>10 DEF Asked, q
    <3>2. m.thread \in [Threads -> Thread]
      BY KernelIs
    <3>3. [m.thread EXCEPT ![h].state = "waiting", ![h].wait = r] = [m.thread EXCEPT ![h] = th]
      BY <1>1, <1>8, <3>2 DEF Thread
    <3>. QED
      BY <3>1, <3>3 DEF With, Kernel
  <2> HIDE DEF th
  <2>3. /\ d \in Kernel /\ SameFrame(m, d) /\ d.thread[h] = th
        /\ \A u \in Threads : u # h => d.thread[u] = m.thread[u]
        /\ d.event = m.event /\ d.iosb = m.iosb /\ d.inserted = m.inserted
    BY <2>1, WithIs
  <2> HIDE DEF d
  <2>. QED
    BY <1>2, <1>4, <1>8, <1>10, <2>1, <2>2, <2>3 DEF SameFrame
<1>. QED
  BY <1>9, <1>10

(* NtReadFile, the read left to the reader: one job more.                  *)
LEMMA DiscReadLaterKeeps ==
  ASSUME Good(k, reader), work \in BOOLEAN, NEW r \in Requests, DiscReadLater(r)
  PROVE  /\ Good(k', reader') /\ work' \in BOOLEAN
         /\ SameThreads(k, k') /\ k'.iosb = [k.iosb EXCEPT ![r] = "pending"]
         /\ JobsOf(k', reader') = JobsOf(k, reader) \cup {JobIn(k, r)}
         /\ k.thread[k.current].state = "running" /\ k.current \in Threads
<1> DEFINE h == k.current
           job == JobIn(k, r)
           on == [reader EXCEPT !.queue = Append(@, job), !.busy = @ + 1]
<1>1. /\ AtCall(k) /\ Called = CalledOf(k) /\ Unused(r) /\ reader.busy < DISC_JOBS
      /\ reader' = on /\ work' = work
  BY GuestIs DEF DiscReadLater, QueueHasRoom, JobIn, Current
<1>2. PICK c : c = CalledOf(k)
  OBVIOUS
<1>3. /\ ThreadsInv(c) /\ LiveRuns(c) /\ ReadsInv(c, reader) /\ c \in Kernel /\ h \in Threads
      /\ c.phase = "exit" /\ c.current = h /\ c.ids = k.ids /\ c.iosb = k.iosb
      /\ c.inserted = k.inserted /\ c.polled = << >>
      /\ \A u \in Threads : u # h => c.thread[u] = k.thread[u]
      /\ k.thread[h].state = "running"
      /\ c.thread[h].state = "running" /\ c.thread[h].wait = "nothing" /\ c.thread[h].id = k.thread[h].id
      /\ c.thread[h].queue = k.thread[h].queue /\ c.thread[h].chains = k.thread[h].chains
  BY <1>1, <1>2, CalledIs
<1>4. k.polled = << >>
  BY <1>1 DEF AtCall
<1>5. PICK d : d = Asked(k, c, r)
  OBVIOUS
<1>6. k' = d
  <2>1. k' = (IF r \in Sync
               THEN [[c EXCEPT !.iosb[r] = "pending", !.frame.eax = "pending", !.event[EventOf[r]] = FALSE]
                       EXCEPT !.thread[h].state = "waiting", !.thread[h].wait = r]
             ELSE [c EXCEPT !.iosb[r] = "pending", !.frame.eax = "pending", !.event[EventOf[r]] = FALSE])
    BY <1>1, <1>2 DEF DiscReadLater
  <2>. QED
    BY <1>5, <2>1 DEF Asked
<1>7. /\ d \in Kernel
      /\ d.phase = "exit" /\ d.current = h /\ d.ids = c.ids /\ d.inserted = c.inserted
      /\ d.polled = << >> /\ d.frame.place = c.frame.place
      /\ d.iosb = [c.iosb EXCEPT ![r] = "pending"]
      /\ \A u \in Threads : u # h => d.thread[u] = c.thread[u]
      /\ d.thread[h].id = c.thread[h].id /\ d.thread[h].queue = c.thread[h].queue
      /\ d.thread[h].chains = c.thread[h].chains /\ d.thread[h].ctx = c.thread[h].ctx
      /\ IF r \in Sync THEN d.thread[h].state = "waiting" /\ d.thread[h].wait = r
         ELSE d.thread[h] = c.thread[h]
  <2> DEFINE z == Asked(k, c, r)
  <2>1. /\ z \in Kernel
        /\ z.phase = c.phase /\ z.current = c.current /\ z.ids = c.ids /\ z.inserted = c.inserted
        /\ z.polled = c.polled /\ z.frame.place = c.frame.place
        /\ z.iosb = [c.iosb EXCEPT ![r] = "pending"]
        /\ \A u \in Threads : u # k.current => z.thread[u] = c.thread[u]
        /\ z.thread[k.current].id = c.thread[k.current].id /\ z.thread[k.current].queue = c.thread[k.current].queue
        /\ z.thread[k.current].chains = c.thread[k.current].chains
        /\ z.thread[k.current].ctx = c.thread[k.current].ctx
        /\ IF r \in Sync THEN z.thread[k.current].state = "waiting" /\ z.thread[k.current].wait = r
           ELSE z.thread[k.current] = c.thread[k.current]
    <3>1. c \in Kernel /\ k.current \in Threads
      BY <1>3
    <3>. QED
      BY <3>1, AskedIs
  <2> HIDE DEF z
  <2>2. d = z
    BY <1>5 DEF z
  <2>. QED
    BY <1>3, <2>1, <2>2
<1>8. /\ k.iosb[r] = "done"
      /\ \A t \in Threads : r \notin QueueSet(k, t) /\ k.thread[t].wait # r
      /\ \A j \in JobsOf(k, reader) : j.request # r
  BY <1>1, UnusedIs
<1>9. c.iosb \in [Requests -> {"pending", "done"}] /\ r \notin Alertable /\ "nothing" \notin Requests
  BY <1>3, KernelIs, DiscReadsAssumption DEF Alertable
<1>10. /\ InCode(d) /\ InCode(c)
       /\ \A t \in Threads : t # h => ContextIn(d, t) = c.thread[t].ctx /\ ContextIn(c, t) = c.thread[t].ctx
       /\ ContextIn(d, h) = d.frame /\ ContextIn(c, h) = c.frame
  BY <1>3, <1>7 DEF InCode, ContextIn, LiveIn
<1>11. \A t \in Threads : /\ Alike(c.thread[t], d.thread[t])
                          /\ c.thread[t].state \in Alive <=> d.thread[t].state \in Alive
  BY <1>3, <1>7 DEF Alike, Alive
<1>12. ThreadsInv(d)
  <2>1. StatesOk(d)
    <3>1. \A t \in Threads : t # h => d.thread[t].state \in {"free", "ready", "waiting"}
      BY <1>3, <1>7 DEF ThreadsInv, StatesOk
    <3>. QED
      BY <1>3, <1>7, <1>10, <3>1 DEF StatesOk
  <2>2. \A t \in Threads : d.thread[t].state \in Alive =>
           c.thread[t].state \in Alive /\ ContextIn(d, t).place = ContextIn(c, t).place
    BY <1>7, <1>10, <1>11
  <2>3. \A t \in Threads : d.thread[t].state = "waiting" /\ d.thread[t].wait \in Alertable =>
           (c.thread[t].state = "waiting" /\ c.thread[t].wait \in Alertable) \/ ~NcApcPending(c.thread[t])
    BY <1>3, <1>7, <1>9
  <2>. QED
    BY <1>3, <1>7, <1>11, <2>1, <2>2, <2>3, PlainKeeps
<1>13. IdsOk(k) /\ k.ids \in Nat /\ k.ids <= MaxThreadId /\ k \in Kernel
  <2>1. IdsOk(k) /\ k \in Kernel
    BY DEF Good, ThreadsInv
  <2>. QED
    BY <2>1, KernelIs, ConstantsAre
<1>14. /\ job \in JobOf /\ job.request = r /\ job.thread = h /\ job.id = k.thread[h].id /\ job.id <= k.ids
       /\ job.id # 0
  <2>1. k.thread[h].id \in 0 .. k.ids /\ k.thread[h].id # 0
    BY <1>3, <1>13 DEF IdsOk
  <2>2. k.thread[h].id \in 1 .. MaxThreadId /\ k.thread[h].id <= k.ids
    BY <1>13, <2>1, ConstantsAre
  <2>. QED
    BY <1>3, <2>1, <2>2 DEF JobOf, JobIn
<1> HIDE DEF job
<1>15. /\ reader \in Readers /\ reader.busy = Len(reader.queue) + Len(reader.done)
       /\ Distinct(reader.queue) /\ Distinct(reader.done) /\ Apart(reader.queue, reader.done)
       /\ reader.queue \in Seq(JobOf) /\ reader.done \in Seq(JobOf) /\ reader.busy \in Nat
  BY <1>13, JobsAre DEF Good, ReadsInv, JobsOk
<1>16. PICK q \in Seq(JobOf) : q = Append(reader.queue, job)
  BY <1>14, <1>15, AppendIs
<1>17. Len(q) = Len(reader.queue) + 1 /\ Range(q) = Range(reader.queue) \cup {job}
  BY <1>14, <1>15, <1>16, AppendIs
<1>18. PICK b \in 0 .. DISC_JOBS : b = reader.busy + 1
  <2>1. PICK n \in Nat : n = reader.busy
    BY <1>15
  <2>2. n < DISC_JOBS /\ DISC_JOBS \in Nat
    BY <1>1, <2>1, ConstantsAre
  <2>3. n + 1 \in 0 .. DISC_JOBS
    BY <2>2
  <2>. QED
    BY <2>1, <2>3
<1>19. on = [reader EXCEPT !.queue = q, !.busy = b]
  BY <1>16, <1>18
<1>20. on \in Readers /\ on.queue = q /\ on.done = reader.done /\ on.busy = reader.busy + 1
  BY <1>15, <1>18, <1>19 DEF Readers
<1> HIDE DEF on
<1>21. Distinct(q) /\ Apart(q, reader.done)
  <2>1. \A i \in Range(reader.queue) : i.request # job.request
    BY <1>8, <1>14 DEF JobsOf
  <2>2. \A i \in Range(reader.done) : i.request # job.request
    BY <1>8, <1>14 DEF JobsOf
  <2>3. Distinct(q)
    BY <1>14, <1>15, <1>16, <2>1, DistinctAppend
  <2>. QED
    BY <1>15, <1>17, <2>2, <2>3 DEF Apart
<1>22. on.busy = Len(on.queue) + Len(on.done)
  <2>1. Len(reader.queue) \in Nat /\ Len(reader.done) \in Nat
    BY <1>15, LenProperties
  <2>2. PICK x \in Nat : x = Len(reader.queue)
    BY <2>1
  <2>3. PICK y \in Nat : y = Len(reader.done)
    BY <2>1
  <2>4. (x + y) + 1 = (x + 1) + y
    BY CountOnce
  <2>. QED
    BY <1>15, <1>17, <1>20, <2>2, <2>3, <2>4
<1>23. /\ JobsOf(d, on) = JobsOf(k, reader) \cup {job} /\ JobsOf(k, reader) = JobsOf(c, reader)
       /\ Range(d.polled) = {}
  BY <1>3, <1>4, <1>7, <1>17, <1>20, EmptyIs DEF JobsOf
<1>24. JobsOk(d, on)
  <2>1. Distinct(d.polled) /\ Apart(on.queue, d.polled) /\ Apart(on.done, d.polled)
    BY <1>7, <1>23, EmptyIs DEF Apart
  <2>2. \A p \in Requests : d.iosb[p] = "pending" <=> \E j \in JobsOf(d, on) : j.request = p
    <3> TAKE p \in Requests
    <3>1. CASE p = r
      BY <1>7, <1>9, <1>14, <1>23, <3>1
    <3>2. CASE p # r
      <4>1. d.iosb[p] = c.iosb[p] /\ (c.iosb[p] = "pending" <=> \E j \in JobsOf(c, reader) : j.request = p)
        BY <1>3, <1>7, <1>9, <3>2 DEF ReadsInv, JobsOk
      <4>. QED
        BY <1>14, <1>23, <3>2, <4>1
    <3>. QED
      BY <3>1, <3>2
  <2>. QED
    BY <1>15, <1>20, <1>21, <1>22, <2>1, <2>2 DEF JobsOk
<1>25. /\ \A t \in Threads : QueueSet(d, t) = QueueSet(c, t) /\ QueueSet(d, t) = QueueSet(k, t)
       /\ \A t \in Threads : d.thread[t].id = c.thread[t].id /\ d.thread[t].id = k.thread[t].id
  BY <1>3, <1>7 DEF QueueSet
<1>26. PendingUnqueued(d)
  <2> SUFFICES ASSUME NEW p \in Requests, d.iosb[p] = "pending", NEW t \in Threads
               PROVE  p \notin QueueSet(d, t)
    BY DEF PendingUnqueued
  <2>1. CASE p = r
    BY <1>8, <1>25, <2>1
  <2>2. CASE p # r
    <3>1. c.iosb[p] = "pending"
      BY <1>7, <1>9, <2>2
    <3>. QED
      BY <1>3, <1>25, <3>1 DEF ReadsInv, PendingUnqueued
  <2>. QED
    BY <2>1, <2>2
<1>27. \A t \in Threads, p \in Requests :
         Waits(d, t, p) <=> IF p = r THEN r \in Sync /\ t = h ELSE Waits(c, t, p)
  <2> TAKE t \in Threads, p \in Requests
  <2>1. c.thread[t].wait # r
    BY <1>3, <1>8, <1>9
  <2>. QED
    BY <1>3, <1>7, <2>1 DEF Waits
<1>28. JobThreads(d, JobsOf(d, on))
  <2> SUFFICES ASSUME NEW j \in JobsOf(d, on)
               PROVE  /\ j.id <= d.ids
                      /\ \A t \in Threads : d.thread[t].id = j.id => t = j.thread
                      /\ j.request \in Sync =>
                           /\ d.thread[j.thread].id = j.id
                           /\ \A t \in Threads : Waits(d, t, j.request) <=> t = j.thread
    BY DEF JobThreads
  <2>1. CASE j = job
    <3>1. \A t \in Threads : d.thread[t].id = j.id => t = h
      BY <1>3, <1>13, <1>14, <1>25, <2>1 DEF IdsOk
    <3>. QED
      BY <1>3, <1>7, <1>14, <1>25, <1>27, <2>1, <3>1
  <2>2. CASE j # job
    <3>1. j \in JobsOf(c, reader) /\ j.request # r /\ j.request \in Requests /\ j.thread \in Threads
      BY <1>3, <1>8, <1>15, <1>23, <2>2, JobsAre
    <3>2. /\ j.id <= c.ids
          /\ \A t \in Threads : c.thread[t].id = j.id => t = j.thread
          /\ j.request \in Sync =>
               /\ c.thread[j.thread].id = j.id
               /\ \A t \in Threads : Waits(c, t, j.request) <=> t = j.thread
      BY <1>3, <3>1 DEF ReadsInv, JobThreads
    <3>. QED
      BY <1>7, <1>25, <1>27, <3>1, <3>2
  <2>. QED
    BY <2>1, <2>2
<1>29. SyncOk(d)
  <2> SUFFICES ASSUME NEW t \in Threads, NEW p \in Requests, d.thread[t].wait = p, d.thread[t].state \in Alive
               PROVE  /\ p \in Sync
                      /\ IF d.thread[t].state = "waiting" THEN d.iosb[p] = "pending"
                         ELSE d.iosb[p] = "done" /\ ContextIn(d, t).eax = "done"
    BY DEF SyncOk
  <2>1. CASE t = h
    BY <1>3, <1>7, <1>9, <2>1
  <2>2. CASE t # h
    <3>1. d.thread[t] = c.thread[t] /\ p # r
      BY <1>3, <1>7, <1>8, <2>2
    <3>2. d.iosb[p] = c.iosb[p]
      BY <1>7, <1>9, <3>1
    <3>. QED
      BY <1>3, <1>10, <2>2, <3>1, <3>2 DEF ReadsInv, SyncOk
  <2>. QED
    BY <2>1, <2>2
<1>30. SameThreads(k, d)
  BY <1>3, <1>7, <1>11 DEF SameThreads
<1>31. PollOk(d)
  BY <1>7 DEF PollOk
<1>. QED
  BY <1>1, <1>3, <1>6, <1>7, <1>12, <1>23, <1>24, <1>26, <1>28, <1>29, <1>30, <1>31 DEF Good, ReadsInv, job

(* The queue of one thread changes, no thread's id and no thread's end.    *)
OnlyQueue(s, r, h) ==
  \A t \in Threads : /\ r.thread[t].id = s.thread[t].id
                     /\ r.thread[t].state \in Alive <=> s.thread[t].state \in Alive
                     /\ t # h => r.thread[t].queue = s.thread[t].queue

(* io_finish of the thread that runs: its APC is queued, it does not wait. *)
LEMMA FinishedIs ==
  ASSUME NEW c, ThreadsInv(c), LiveRuns(c), InCode(c), NEW r \in Requests, c.iosb[r] = "done",
         \A t \in Threads : r \notin QueueSet(c, t)
  PROVE  LET i == IoFinish(c, r)
             h == c.current
         IN /\ ThreadsInv(i) /\ LiveRuns(i) /\ SameFrame(c, i) /\ i.iosb = c.iosb
            /\ i.thread[h].state = "running" /\ i.thread[h].wait = c.thread[h].wait
            /\ i.thread[h].id = c.thread[h].id
            /\ i.thread[h].queue = IF r \in HasApc THEN Append(c.thread[h].queue, r) ELSE c.thread[h].queue
            /\ \A u \in Threads : u # h => EventEnds(c.thread[u], i.thread[u])
<1> DEFINE h == c.current
           o == Told(c, r)
           i == IoFinish(c, r)
<1>1. c \in Kernel /\ h \in Threads /\ c.thread[h].state = "running"
  BY KernelIs DEF ThreadsInv, LiveRuns
<1>2. /\ ThreadsInv(o) /\ LiveRuns(o) /\ SameFrame(c, o) /\ o \in Kernel
      /\ o.iosb[r] = "done" /\ \A q \in Requests : q # r => o.iosb[q] = c.iosb[q]
      /\ \A t \in Threads : EventEnds(c.thread[t], o.thread[t])
  BY <1>1, ToldIs, ToldKeeps
<1>3. i = IF r \in HasApc THEN NcApcQueue(o, h, r) ELSE o
  BY DEF IoFinish, Told
<1> HIDE DEF i, o
<1>4. o.thread[h] = c.thread[h]
  BY <1>1, <1>2 DEF EventEnds
<1>5. o.iosb = c.iosb
  <2>1. o.iosb \in [Requests -> {"pending", "done"}] /\ c.iosb \in [Requests -> {"pending", "done"}]
    BY <1>1, <1>2, KernelIs
  <2>. QED
    BY <1>2, <2>1
<1>6. CASE r \notin HasApc
  BY <1>1, <1>2, <1>3, <1>4, <1>5, <1>6 DEF i
<1>7. CASE r \in HasApc
  <2>1. r \in Apcs /\ r \notin Kapcs
    BY ApcAssumption DEF Apcs
  <2>2. Fresh(o, r)
    <3>1. \A t \in Threads : c.thread[t] \in Thread
      BY <1>1, KernelIs
    <3>2. \A t \in Threads : o.thread[t].queue = c.thread[t].queue
      BY <1>2, <3>1, EventEndsEases DEF Eased
    <3>. QED
      BY <2>1, <3>2 DEF Fresh, QueueSet
  <2>3. i = NcApcQueue(o, h, r)
    BY <1>3, <1>7
  <2>4. ThreadsInv(i) /\ LiveRuns(i)
    BY <1>1, <1>2, <2>1, <2>2, <2>3, NcApcQueueKeeps
  <2>5. /\ SameFrame(o, i) /\ i.iosb = o.iosb
        /\ \A u \in Threads : u # h => i.thread[u] = o.thread[u]
        /\ QueuedLast(o.thread[h], i.thread[h], r) \/ BegunAtOnce(o.thread[h], i.thread[h])
    BY <1>1, <1>2, <2>1, <2>3, NcApcQueueIs
  <2>6. QueuedLast(o.thread[h], i.thread[h], r)
    BY <1>1, <1>4, <2>5 DEF BegunAtOnce
  <2>7. SameFrame(c, i)
    BY <1>2, <2>5 DEF SameFrame
  <2>. QED
    BY <1>1, <1>2, <1>4, <1>5, <1>7, <2>4, <2>5, <2>6, <2>7 DEF QueuedLast, i
<1>. QED
  BY <1>6, <1>7

(* NtReadFile in place.                                                    *)
LEMMA ReadInPlaceKeeps ==
  ASSUME Good(k, reader), work \in BOOLEAN, NEW r \in Requests, ReadInPlace(r)
  PROVE  /\ Good(k', reader') /\ work' \in BOOLEAN
         /\ k'.iosb = k.iosb /\ JobsOf(k', reader') = JobsOf(k, reader)
         /\ \/ SameThreads(k, k')
            \/ /\ r \in HasApc /\ OnlyQueue(k, k', k.current)
               /\ k'.thread[k.current].queue = Append(k.thread[k.current].queue, r)
         /\ k.thread[k.current].state = "running" /\ k.current \in Threads
<1> DEFINE h == k.current
<1>1. /\ AtCall(k) /\ Called = CalledOf(k) /\ Unused(r) /\ reader' = reader /\ work' = work
  BY GuestIs DEF ReadInPlace
<1>2. PICK c : c = CalledOf(k)
  OBVIOUS
<1>3. /\ ThreadsInv(c) /\ LiveRuns(c) /\ ReadsInv(c, reader) /\ c \in Kernel /\ h \in Threads
      /\ c.phase = "exit" /\ c.current = h /\ c.ids = k.ids /\ c.iosb = k.iosb
      /\ c.inserted = k.inserted /\ c.polled = << >>
      /\ \A u \in Threads : u # h => c.thread[u] = k.thread[u]
      /\ k.thread[h].state = "running"
      /\ c.thread[h].state = "running" /\ c.thread[h].wait = "nothing" /\ c.thread[h].id = k.thread[h].id
      /\ c.thread[h].queue = k.thread[h].queue /\ c.thread[h].chains = k.thread[h].chains
  BY <1>1, <1>2, CalledIs
<1>4. k.polled = << >>
  BY <1>1 DEF AtCall
<1>5. \/ k' = c
      \/ k' = [IoFinish(c, r) EXCEPT !.frame.eax = "done"]
  BY <1>1, <1>2 DEF ReadInPlace
<1>6. CASE k' = c
  <2>1. PollOk(c) /\ SameThreads(k, c) /\ JobsOf(c, reader) = JobsOf(k, reader)
    BY <1>3, <1>4 DEF PollOk, SameThreads, JobsOf
  <2>. QED
    BY <1>1, <1>3, <1>6, <2>1 DEF Good
<1>7. CASE k' = [IoFinish(c, r) EXCEPT !.frame.eax = "done"]
  <2>1. /\ k.iosb[r] = "done" /\ \A t \in Threads : r \notin QueueSet(k, t)
    BY <1>1, UnusedIs
  <2>2. /\ c.iosb[r] = "done" /\ \A t \in Threads : r \notin QueueSet(c, t)
        /\ InCode(c)
    BY <1>3, <2>1 DEF QueueSet, InCode
  <2>3. PICK i : i = IoFinish(c, r)
    OBVIOUS
  <2>4. /\ ThreadsInv(i) /\ LiveRuns(i) /\ SameFrame(c, i) /\ i.iosb = c.iosb
        /\ i.thread[h].state = "running" /\ i.thread[h].wait = "nothing"
        /\ i.thread[h].id = c.thread[h].id
        /\ i.thread[h].queue = (IF r \in HasApc THEN Append(c.thread[h].queue, r) ELSE c.thread[h].queue)
        /\ \A u \in Threads : u # h => EventEnds(c.thread[u], i.thread[u])
    BY <1>3, <2>2, <2>3, FinishedIs
  <2>5. i \in Kernel /\ i.frame \in Contexts
    BY <2>4, KernelIs DEF ThreadsInv
  <2>6. PICK g \in Contexts : g = [i.frame EXCEPT !.eax = "done"]
    BY <2>5 DEF Contexts, Statuses
  <2>7. g.place = i.frame.place
    BY <2>5, <2>6 DEF Contexts
  <2>8. PICK d \in Kernel : d = [i EXCEPT !.frame = g]
    BY <2>5 DEF Kernel
  <2>9. /\ d.phase = i.phase /\ d.current = i.current /\ d.ids = i.ids /\ d.iosb = i.iosb
        /\ d.inserted = i.inserted /\ d.polled = i.polled /\ d.thread = i.thread /\ d.frame = g
    BY <2>5, <2>8 DEF Kernel
  <2>10. k' = d
    BY <1>7, <2>3, <2>6, <2>8
  <2>11. /\ d.phase = "exit" /\ d.current = h /\ d.ids = c.ids /\ d.iosb = c.iosb /\ d.polled = << >>
         /\ InCode(d) /\ InCode(i)
    BY <1>3, <2>4, <2>9 DEF SameFrame, InCode
  <2>12. /\ \A t \in Threads : t # h => ContextIn(d, t) = i.thread[t].ctx /\ ContextIn(i, t) = i.thread[t].ctx
                                        /\ ContextIn(c, t) = c.thread[t].ctx
         /\ ContextIn(d, h) = g /\ ContextIn(i, h) = i.frame
    BY <1>3, <2>4, <2>9, <2>11 DEF ContextIn, LiveIn
  <2>13. ThreadsInv(d)
    <3>1. StatesOk(d)
      BY <2>4, <2>9, <2>11 DEF ThreadsInv, StatesOk
    <3>2. \A t \in Threads : ContextIn(d, t).place = ContextIn(i, t).place
      BY <1>3, <2>7, <2>12
    <3>. QED
      BY <2>4, <2>9, <3>1, <3>2, PlainKeeps DEF Alike
  <2>14. \A u \in Threads : u # h =>
           /\ d.thread[u].id = c.thread[u].id /\ d.thread[u].queue = c.thread[u].queue
           /\ \/ d.thread[u] = c.thread[u]
              \/ c.thread[u].state = "waiting" /\ c.thread[u].wait \in Events
                 /\ d.thread[u].state = "ready" /\ d.thread[u].wait = "nothing"
    <3> TAKE u \in Threads
    <3> HAVE u # h
    <3>1. c.thread[u] \in Thread /\ EventEnds(c.thread[u], d.thread[u])
      BY <1>3, <2>4, <2>9, KernelIs
    <3>. QED
      BY <3>1, ReadyAgainIs DEF EventEnds
  <2>15. "nothing" \notin Requests /\ Requests \cap Events = {} /\ k.ids \in Nat
    BY <1>3, KernelIs, ConstantsAre, DiscReadsAssumption
  <2>16. \A t \in Threads : /\ d.thread[t].id = c.thread[t].id
                            /\ d.thread[t].state \in Alive <=> c.thread[t].state \in Alive
    BY <1>3, <2>4, <2>9, <2>14 DEF Alive
  <2>17. \A t \in Threads : QueueSet(d, t) \subseteq QueueSet(c, t) \cup {r}
    <3> TAKE t \in Threads
    <3>1. CASE t = h
      <4>1. c.thread[h].queue \in Seq(Apcs) /\ r \in Apcs
        BY <1>3, KernelIs, ThreadIs DEF Apcs
      <4>2. Range(Append(c.thread[h].queue, r)) = Range(c.thread[h].queue) \cup {r}
        BY <4>1, AppendIs
      <4>. QED
        BY <2>4, <2>9, <3>1, <4>2 DEF QueueSet
    <3>2. CASE t # h
      BY <2>14, <3>2 DEF QueueSet
    <3>. QED
      BY <3>1, <3>2
  <2>18. QuietReads(c, d)
    <3>1. \A t \in Threads, q \in Requests : Waits(d, t, q) <=> Waits(c, t, q)
      <4> TAKE t \in Threads, q \in Requests
      <4>1. CASE t = h
        BY <1>3, <2>4, <2>9, <4>1 DEF Waits
      <4>2. CASE t # h
        BY <2>14, <2>15, <4>2 DEF Waits
      <4>. QED
        BY <4>1, <4>2
    <3>2. \A t \in Threads, q \in Requests :
            c.iosb[q] = "pending" /\ q \in QueueSet(d, t) => q \in QueueSet(c, t)
      BY <2>2, <2>17
    <3>3. \A t \in Threads : d.thread[t].wait \in Requests /\ d.thread[t].state \in {"ready", "running"} =>
            /\ c.thread[t].wait = d.thread[t].wait /\ c.thread[t].state \in {"ready", "running"}
            /\ ContextIn(d, t).eax = ContextIn(c, t).eax
      <4> TAKE t \in Threads
      <4> HAVE d.thread[t].wait \in Requests /\ d.thread[t].state \in {"ready", "running"}
      <4>1. t # h
        BY <2>4, <2>9, <2>15
      <4>2. d.thread[t] = c.thread[t]
        BY <2>14, <2>15, <4>1
      <4>. QED
        BY <2>9, <2>12, <4>1, <4>2
    <3>4. d.iosb = c.iosb /\ d.polled = c.polled /\ c.ids <= d.ids
      BY <1>3, <2>11, <2>15
    <3>. QED
      BY <2>16, <3>1, <3>2, <3>3, <3>4 DEF QuietReads
  <2>19. ReadsInv(d, reader)
    BY <1>3, <2>18, QuietKeeps
  <2>20. /\ PollOk(d) /\ JobsOf(d, reader) = JobsOf(k, reader) /\ d.iosb = k.iosb
    BY <1>3, <1>4, <2>11 DEF PollOk, JobsOf
  <2>21. \/ SameThreads(k, d)
         \/ /\ r \in HasApc /\ OnlyQueue(k, d, h)
            /\ d.thread[h].queue = Append(k.thread[h].queue, r)
    <3>1. \A t \in Threads : /\ d.thread[t].id = k.thread[t].id
                             /\ d.thread[t].state \in Alive <=> k.thread[t].state \in Alive
                             /\ t # h => d.thread[t].queue = k.thread[t].queue
      BY <1>3, <2>14, <2>16
    <3>2. d.thread[h].queue = IF r \in HasApc THEN Append(k.thread[h].queue, r) ELSE k.thread[h].queue
      BY <1>3, <2>4, <2>9
    <3>. QED
      BY <1>3, <3>1, <3>2 DEF SameThreads, OnlyQueue
  <2>. QED
    BY <1>1, <1>3, <2>10, <2>13, <2>19, <2>20, <2>21 DEF Good
<1>. QED
  BY <1>5, <1>6, <1>7

(* The thread that runs, in another routine.                               *)
InRoutine(s, th, frame) == [s EXCEPT !.thread[s.current] = th, !.frame = frame]

LEMMA InRoutineIs ==
  ASSUME NEW s \in Kernel, NEW th \in Thread, NEW g \in Contexts
  PROVE  LET r == InRoutine(s, th, g)
             h == s.current
         IN /\ r \in Kernel /\ r.phase = s.phase /\ r.current = s.current /\ r.ids = s.ids /\ r.iosb = s.iosb
            /\ r.inserted = s.inserted /\ r.polled = s.polled /\ r.frame = g
            /\ r.thread[h] = th /\ \A u \in Threads : u # h => r.thread[u] = s.thread[u]
<1> DEFINE h == s.current
<1>1. PICK f \in [Threads -> Thread] : f = [s.thread EXCEPT ![h] = th]
  BY KernelIs
<1>2. f[h] = th /\ \A u \in Threads : u # h => f[u] = s.thread[u]
  BY <1>1, KernelIs
<1>3. InRoutine(s, th, g) = [s EXCEPT !.thread = f, !.frame = g]
  BY <1>1 DEF InRoutine
<1>. QED
  BY <1>2, <1>3 DEF Kernel

(* It begins a call: an APC of a KAPC is no longer inserted.               *)
LEMMA RoutineKeeps ==
  ASSUME NEW s, ThreadsInv(s), LiveRuns(s), InCode(s), s.thread[s.current].wait = "nothing",
         NEW th \in Thread, NEW g \in Contexts, NEW call,
         th.state = "running", th.wait = "nothing", th.id = s.thread[s.current].id, NestOk(th, g.place),
         \/ th.queue = s.thread[s.current].queue /\ call.stage # 1
         \/ /\ s.thread[s.current].queue # << >> /\ th.queue = Tail(s.thread[s.current].queue)
            /\ call = FirstCall(Head(s.thread[s.current].queue))
  PROVE  LET r == Begun(InRoutine(s, th, g), call)
         IN /\ ThreadsInv(r) /\ LiveRuns(r) /\ \A rd : ReadsInv(s, rd) => ReadsInv(r, rd)
            /\ r.iosb = s.iosb /\ r.polled = s.polled
            /\ r.thread[s.current] = th /\ \A u \in Threads : u # s.current => r.thread[u] = s.thread[u]
<1> DEFINE h == s.current
           m == InRoutine(s, th, g)
           r == Begun(m, call)
<1>1. s \in Kernel /\ h \in Threads /\ s.thread[h].queue \in Seq(Apcs)
  BY KernelIs, ThreadIs DEF ThreadsInv
<1>2. /\ m \in Kernel /\ m.phase = s.phase /\ m.current = s.current /\ m.ids = s.ids /\ m.iosb = s.iosb
      /\ m.inserted = s.inserted /\ m.polled = s.polled /\ m.frame = g
      /\ m.thread[h] = th /\ \A u \in Threads : u # h => m.thread[u] = s.thread[u]
  BY <1>1, InRoutineIs
<1> HIDE DEF m
<1>3. /\ r \in Kernel /\ r.phase = s.phase /\ r.current = s.current /\ r.ids = s.ids /\ r.iosb = s.iosb
      /\ r.polled = s.polled /\ r.frame = g /\ r.thread = m.thread /\ Taken(s, r, h)
  <2>1. CASE th.queue = s.thread[h].queue /\ call.stage # 1
    BY <1>2, <2>1 DEF Begun, Taken
  <2>2. CASE /\ s.thread[h].queue # << >> /\ th.queue = Tail(s.thread[h].queue)
             /\ call = FirstCall(Head(s.thread[h].queue))
    <3>1. PICK a \in Apcs : a = Head(s.thread[h].queue)
      BY <1>1, <2>2, TailIs
    <3>2. r = Begun(m, FirstCall(a))
      BY <2>2, <3>1
    <3> HIDE DEF r
    <3>3. /\ r \in Kernel /\ SameFrame(m, r) /\ r.thread = m.thread /\ r.iosb = m.iosb
          /\ \A b \in Kapcs : b # a => r.inserted[b] = m.inserted[b]
      BY <1>2, <3>2, BegunIs
    <3>. QED
      BY <1>2, <2>2, <3>1, <3>3 DEF SameFrame, Taken
  <2>. QED
    BY <2>1, <2>2
<1> HIDE DEF r
<1>4. /\ \A u \in Threads : u # s.current => r.thread[u] = s.thread[u]
      /\ r.thread[s.current] = th
  BY <1>2, <1>3
<1>5. ThreadsInv(r) /\ LiveRuns(r) /\ \A rd : ReadsInv(s, rd) => ReadsInv(r, rd)
  BY <1>3, <1>4, GoesOn
<1>. QED
  BY <1>3, <1>4, <1>5 DEF r, m

(* What a call that gives the running thread an APC does to the promise.   *)
Given(s, r) ==
  LET h == s.current
  IN \/ SameThreads(s, r)
     \/ /\ OnlyQueue(s, r, h) /\ s.thread[h].queue # << >>
        /\ r.thread[h].queue = Tail(s.thread[h].queue)

(* An alertable wait gives the first APC, or waits with none that could    *)
(* run.                                                                    *)
LEMMA AlertableWaitKeeps ==
  ASSUME Good(k, reader), work \in BOOLEAN, NEW e \in Events \cup {"sleep"}, AlertableWait(e)
  PROVE  /\ Good(k', reader') /\ work' \in BOOLEAN
         /\ k'.iosb = k.iosb /\ JobsOf(k', reader') = JobsOf(k, reader) /\ Given(k, k')
         /\ k.thread[k.current].state = "running" /\ k.current \in Threads
<1> DEFINE h == k.current
<1>1. /\ AtCall(k) /\ Called = CalledOf(k) /\ reader' = reader /\ work' = work
  BY GuestIs DEF AlertableWait
<1>2. PICK c : c = CalledOf(k)
  OBVIOUS
<1>3. /\ ThreadsInv(c) /\ LiveRuns(c) /\ ReadsInv(c, reader) /\ c \in Kernel /\ h \in Threads
      /\ c.phase = "exit" /\ c.current = h /\ c.ids = k.ids /\ c.event = k.event /\ c.iosb = k.iosb
      /\ c.inserted = k.inserted /\ c.polled = << >>
      /\ c.frame \in Contexts /\ c.frame.place = k.frame.place
      /\ \A u \in Threads : u # h => c.thread[u] = k.thread[u]
      /\ k.thread[h].state = "running"
      /\ c.thread[h].state = "running" /\ c.thread[h].wait = "nothing" /\ c.thread[h].id = k.thread[h].id
      /\ c.thread[h].queue = k.thread[h].queue /\ c.thread[h].chains = k.thread[h].chains
  BY <1>1, <1>2, CalledIs
<1>4. k.polled = << >> /\ InCode(c)
  BY <1>1, <1>3 DEF AtCall, InCode
<1> DEFINE t == c.thread[h]
           on == BeginChain(t, k.frame.place)
<1>5. \/ /\ NcApcPending(t)
         /\ k' = Begun([c EXCEPT !.thread[h] = on, !.frame.place = Routine(on)], Last(on.chains).call)
      \/ k' = c
      \/ /\ ~NcApcPending(t)
         /\ k' = [c EXCEPT !.thread[h] = [t EXCEPT !.state = "waiting", !.wait = e]]
  BY <1>1, <1>2 DEF AlertableWait, Alerted
<1>6. CASE k' = c
  <2>1. PollOk(c) /\ SameThreads(k, c) /\ JobsOf(c, reader) = JobsOf(k, reader)
    BY <1>3, <1>4 DEF PollOk, SameThreads, JobsOf
  <2>. QED
    BY <1>1, <1>3, <1>6, <2>1 DEF Good, Given
<1>7. t \in Thread /\ ContextIn(c, h) = c.frame /\ NestOk(t, c.frame.place) /\ c.frame.place \in Places
  <2>1. t \in Thread /\ ContextIn(c, h) = c.frame
    BY <1>3, <1>4, KernelIs DEF ContextIn, LiveIn
  <2>2. NestOk(t, ContextIn(c, h).place)
    BY <1>3 DEF ThreadsInv, NestsOk, Alive
  <2>. QED
    BY <1>3, <2>1, <2>2, ConstantsAre
<1>8. CASE /\ NcApcPending(t)
           /\ k' = Begun([c EXCEPT !.thread[h] = on, !.frame.place = Routine(on)], Last(on.chains).call)
  <2>1. /\ on \in Thread /\ on.state = t.state /\ on.id = t.id /\ on.wait = t.wait
        /\ on.queue = Tail(t.queue) /\ t.queue # << >>
        /\ Routine(on) \in Places /\ NestOk(on, Routine(on))
        /\ Last(on.chains).call = FirstCall(Head(t.queue))
    BY <1>3, <1>7, <1>8, BeginChainIs
  <2> HIDE DEF on
  <2>2. PICK g \in Contexts : g = [c.frame EXCEPT !.place = Routine(on)]
    BY <1>3, <2>1 DEF Contexts
  <2>3. g.place = Routine(on)
    BY <1>3, <2>1, <2>2 DEF Contexts
  <2>4. PICK call : call = Last(on.chains).call
    OBVIOUS
  <2>5. k' = Begun(InRoutine(c, on, g), call)
    <3>1. InRoutine(c, on, g) = [c EXCEPT !.thread[h] = on, !.frame.place = Routine(on)]
      BY <1>3, <2>2 DEF InRoutine
    <3>. QED
      BY <1>8, <2>4, <3>1
  <2>6. PICK d : d = Begun(InRoutine(c, on, g), call)
    OBVIOUS
  <2>7. /\ ThreadsInv(d) /\ LiveRuns(d) /\ ReadsInv(d, reader)
        /\ d.iosb = c.iosb /\ d.polled = c.polled
        /\ d.thread[h] = on /\ \A u \in Threads : u # h => d.thread[u] = c.thread[u]
    <3>1. /\ c.thread[c.current].wait = "nothing" /\ on.state = "running" /\ on.wait = "nothing"
          /\ on.id = c.thread[c.current].id /\ NestOk(on, g.place)
          /\ c.thread[c.current].queue # << >> /\ on.queue = Tail(c.thread[c.current].queue)
          /\ call = FirstCall(Head(c.thread[c.current].queue))
      BY <1>3, <2>1, <2>3, <2>4
    <3> HIDE DEF t, h
    <3>2. /\ ThreadsInv(d) /\ LiveRuns(d) /\ (\A rd : ReadsInv(c, rd) => ReadsInv(d, rd))
          /\ d.iosb = c.iosb /\ d.polled = c.polled
          /\ d.thread[c.current] = on /\ \A u \in Threads : u # c.current => d.thread[u] = c.thread[u]
      <4> DEFINE z == Begun(InRoutine(c, on, g), call)
      <4>1. ThreadsInv(c) /\ LiveRuns(c) /\ InCode(c) /\ on \in Thread
        BY <1>3, <1>4, <2>1
      <4>2. /\ ThreadsInv(z) /\ LiveRuns(z) /\ (\A rd : ReadsInv(c, rd) => ReadsInv(z, rd))
            /\ z.iosb = c.iosb /\ z.polled = c.polled
            /\ z.thread[c.current] = on /\ \A u \in Threads : u # c.current => z.thread[u] = c.thread[u]
        BY <3>1, <4>1, RoutineKeeps
      <4> HIDE DEF z
      <4>. QED
        BY <2>6, <4>2 DEF z
    <3>. QED
      BY <1>3, <3>2
  <2>8. OnlyQueue(k, d, h) /\ d.thread[h].queue = Tail(k.thread[h].queue) /\ k.thread[h].queue # << >>
    BY <1>3, <2>1, <2>7 DEF OnlyQueue
  <2>9. PollOk(d) /\ JobsOf(d, reader) = JobsOf(k, reader)
    BY <1>3, <1>4, <2>7 DEF PollOk, JobsOf
  <2>. QED
    BY <1>1, <1>3, <2>5, <2>6, <2>7, <2>8, <2>9 DEF Good, Given
<1>9. CASE /\ ~NcApcPending(t)
           /\ k' = [c EXCEPT !.thread[h] = [t EXCEPT !.state = "waiting", !.wait = e]]
  <2> DEFINE th == [t EXCEPT !.state = "waiting", !.wait = e]
             d == With(c, h, th)
  <2>1. /\ th \in Thread /\ th.state = "waiting" /\ th.wait = e /\ th.id = t.id /\ th.queue = t.queue
        /\ th.chains = t.chains /\ th.ctx = t.ctx
    BY <1>7 DEF Thread
  <2>2. k' = d
    BY <1>9 DEF With
  <2> HIDE DEF th
  <2>3. /\ d \in Kernel /\ SameFrame(c, d) /\ d.thread[h] = th
        /\ \A u \in Threads : u # h => d.thread[u] = c.thread[u]
        /\ d.iosb = c.iosb /\ d.inserted = c.inserted
    BY <1>3, <2>1, WithIs
  <2> HIDE DEF d
  <2>4. /\ d.phase = "exit" /\ d.current = h /\ d.ids = c.ids /\ d.frame = c.frame /\ d.polled = << >>
        /\ InCode(d)
    BY <1>3, <2>3 DEF SameFrame, InCode
  <2>5. \A u \in Threads : ContextIn(d, u) = ContextIn(c, u)
    BY <1>3, <1>7, <2>1, <2>3, <2>4 DEF ContextIn, LiveIn
  <2>6. \A u \in Threads : Alike(c.thread[u], d.thread[u])
                           /\ (d.thread[u].state \in Alive <=> c.thread[u].state \in Alive)
    BY <1>3, <2>1, <2>3 DEF Alike, Alive
  <2>7. ThreadsInv(d)
    <3>1. StatesOk(d)
      <4>1. \A u \in Threads : u # h => d.thread[u].state \in {"free", "ready", "waiting"}
        BY <1>3, <2>3 DEF ThreadsInv, StatesOk
      <4>. QED
        BY <2>1, <2>3, <2>4, <4>1 DEF StatesOk
    <3>2. \A u \in Threads : d.thread[u].state = "waiting" /\ d.thread[u].wait \in Alertable =>
             (c.thread[u].state = "waiting" /\ c.thread[u].wait \in Alertable) \/ ~NcApcPending(c.thread[u])
      BY <1>9, <2>3
    <3>. QED
      BY <1>3, <2>3, <2>4, <2>5, <2>6, <3>1, <3>2, PlainKeeps
  <2>8. ReadsInv(d, reader)
    <3>1. e \notin Requests /\ "nothing" \notin Requests /\ c.ids \in Nat
      BY <1>3, DiscReadsAssumption, KernelIs, ConstantsAre
    <3>2. \A u \in Threads, q \in Requests : Waits(d, u, q) <=> Waits(c, u, q)
      BY <1>3, <2>1, <2>3, <3>1 DEF Waits
    <3>3. \A u \in Threads : d.thread[u].wait \in Requests => u # h
      BY <2>1, <2>3, <3>1
    <3>4. \A u \in Threads : d.thread[u].id = c.thread[u].id /\ QueueSet(d, u) = QueueSet(c, u)
      BY <2>6 DEF Alike, QueueSet
    <3>5. \A u \in Threads : d.thread[u].wait \in Requests => d.thread[u] = c.thread[u]
      BY <2>3, <3>3
    <3>6. d.polled = c.polled /\ d.iosb = c.iosb /\ c.ids <= d.ids
      BY <1>3, <2>3, <2>4, <3>1
    <3>7. QuietReads(c, d)
      BY <2>5, <3>2, <3>4, <3>5, <3>6 DEF QuietReads
    <3>. QED
      BY <1>3, <2>3, <3>7, QuietKeeps
  <2>9. SameThreads(k, d) /\ PollOk(d) /\ JobsOf(d, reader) = JobsOf(k, reader)
    <3>1. SameThreads(c, d)
      BY <2>6 DEF Alike, SameThreads
    <3>2. SameThreads(k, c)
      BY <1>3 DEF SameThreads
    <3>. QED
      BY <1>4, <2>4, <3>1, <3>2 DEF SameThreads, PollOk, JobsOf
  <2>. QED
    BY <1>1, <1>3, <2>2, <2>3, <2>7, <2>8, <2>9 DEF Good, Given
<1>. QED
  BY <1>5, <1>6, <1>8, <1>9

(* The return of a routine gives the next APC, or ends the chain.          *)
LEMMA ApcReturnKeeps ==
  ASSUME Good(k, reader), work \in BOOLEAN, NEW cleared \in BOOLEAN, ApcReturn(cleared)
  PROVE  /\ Good(k', reader') /\ work' \in BOOLEAN
         /\ k'.iosb = k.iosb /\ JobsOf(k', reader') = JobsOf(k, reader) /\ Given(k, k')
         /\ k.thread[k.current].state = "running" /\ k.current \in Threads
<1> DEFINE h == k.current
<1>1. /\ AtCall(k) /\ Called = CalledOf(k) /\ reader' = reader /\ work' = work
      /\ k.thread[h].chains # << >>
  BY GuestIs DEF ApcReturn, Current
<1>2. PICK c : c = CalledOf(k)
  OBVIOUS
<1>3. /\ ThreadsInv(c) /\ LiveRuns(c) /\ ReadsInv(c, reader) /\ c \in Kernel /\ h \in Threads
      /\ c.phase = "exit" /\ c.current = h /\ c.ids = k.ids /\ c.iosb = k.iosb /\ c.polled = << >>
      /\ c.frame \in Contexts
      /\ \A u \in Threads : u # h => c.thread[u] = k.thread[u]
      /\ k.thread[h].state = "running"
      /\ c.thread[h].state = "running" /\ c.thread[h].wait = "nothing" /\ c.thread[h].id = k.thread[h].id
      /\ c.thread[h].queue = k.thread[h].queue /\ c.thread[h].chains = k.thread[h].chains
  BY <1>1, <1>2, CalledIs
<1>4. k.polled = << >> /\ InCode(c)
  BY <1>1, <1>3 DEF AtCall, InCode
<1>5. PICK t : t = c.thread[h]
  OBVIOUS
<1>6. PICK ret : ret = NcApcReturn(t, cleared)
  OBVIOUS
<1>7. k' = Begun([c EXCEPT !.thread[h] = ret.thread, !.frame = ret.ctx], ret.call)
  BY <1>1, <1>2, <1>5, <1>6 DEF ApcReturn
<1>8. t \in Thread /\ NestOk(t, c.frame.place) /\ c.frame.place \in Places /\ t.chains # << >>
  <2>1. t \in Thread /\ ContextIn(c, h) = c.frame
    BY <1>3, <1>4, <1>5, KernelIs DEF ContextIn, LiveIn
  <2>2. NestOk(t, ContextIn(c, h).place)
    BY <1>3, <1>5 DEF ThreadsInv, NestsOk, Alive
  <2>. QED
    BY <1>1, <1>3, <1>5, <2>1, <2>2, ConstantsAre
<1>9. /\ ret.thread \in Thread /\ ret.thread.state = t.state /\ ret.thread.id = t.id /\ ret.thread.wait = t.wait
      /\ ret.ctx \in Contexts /\ NestOk(ret.thread, ret.ctx.place)
      /\ \/ ret.thread.queue = t.queue /\ ret.call.stage # 1
         \/ /\ t.queue # << >> /\ ret.thread.queue = Tail(t.queue)
            /\ ret.call = FirstCall(Head(t.queue))
  BY <1>6, <1>8, ReturnIs
<1>10. PICK on \in Thread : on = ret.thread
  BY <1>9
<1>11. PICK g \in Contexts : g = ret.ctx
  BY <1>9
<1>12. PICK call : call = ret.call
  OBVIOUS
<1>13. k' = Begun(InRoutine(c, on, g), call)
  BY <1>3, <1>7, <1>10, <1>11, <1>12 DEF InRoutine
<1> DEFINE d == Begun(InRoutine(c, on, g), call)
<1>14. /\ c.thread[c.current].wait = "nothing" /\ on.state = "running" /\ on.wait = "nothing"
       /\ on.id = c.thread[c.current].id /\ NestOk(on, g.place)
       /\ \/ on.queue = c.thread[c.current].queue /\ call.stage # 1
          \/ /\ c.thread[c.current].queue # << >> /\ on.queue = Tail(c.thread[c.current].queue)
             /\ call = FirstCall(Head(c.thread[c.current].queue))
  BY <1>3, <1>5, <1>9, <1>10, <1>11, <1>12
<1>15. /\ ThreadsInv(d) /\ LiveRuns(d) /\ (\A rd : ReadsInv(c, rd) => ReadsInv(d, rd))
       /\ d.iosb = c.iosb /\ d.polled = c.polled
       /\ d.thread[c.current] = on /\ \A u \in Threads : u # c.current => d.thread[u] = c.thread[u]
  <2>1. ThreadsInv(c) /\ LiveRuns(c) /\ InCode(c)
    BY <1>3, <1>4
  <2> HIDE DEF h
  <2>. QED
    BY <1>14, <2>1, RoutineKeeps
<1> HIDE DEF d
<1>16. k' = d
  BY <1>13 DEF d
<1>17. Given(k, d)
  <2>1. \A u \in Threads : /\ d.thread[u].id = k.thread[u].id
                           /\ d.thread[u].state \in Alive <=> k.thread[u].state \in Alive
                           /\ u # h => d.thread[u].queue = k.thread[u].queue
    BY <1>3, <1>14, <1>15
  <2>2. \/ d.thread[h].queue = k.thread[h].queue
        \/ k.thread[h].queue # << >> /\ d.thread[h].queue = Tail(k.thread[h].queue)
    BY <1>3, <1>14, <1>15
  <2>. QED
    BY <2>1, <2>2 DEF Given, SameThreads, OnlyQueue
<1>18. PollOk(d) /\ JobsOf(d, reader) = JobsOf(k, reader)
  BY <1>3, <1>4, <1>15 DEF PollOk, JobsOf
<1>. QED
  BY <1>1, <1>3, <1>15, <1>16, <1>17, <1>18 DEF Good

(* KeInsertQueueApc, of a KAPC that was not inserted: it is in no queue.   *)
LEMMA KeInsertQueueApcKeeps ==
  ASSUME Good(k, reader), work \in BOOLEAN, NEW a \in Kapcs, NEW t \in Threads, KeInsertQueueApc(a, t)
  PROVE  /\ Good(k', reader') /\ work' \in BOOLEAN
         /\ k'.iosb = k.iosb /\ JobsOf(k', reader') = JobsOf(k, reader) /\ OnlyQueue(k, k', t)
         /\ \/ k'.thread[t].queue = Append(k.thread[t].queue, a)
            \/ k.thread[t].queue = << >> /\ k'.thread[t].queue = << >>
         /\ \A u \in Threads : a \notin QueueSet(k, u)
         /\ k.thread[t].id = ThreadOf[a]
<1> DEFINE h == k.current
<1>1. /\ AtCall(k) /\ Called = CalledOf(k) /\ reader' = reader /\ work' = work
      /\ ~k.inserted[a] /\ k.thread[t].id = ThreadOf[a]
  BY GuestIs DEF KeInsertQueueApc
<1>2. PICK c : c = CalledOf(k)
  OBVIOUS
<1>3. /\ ThreadsInv(c) /\ LiveRuns(c) /\ ReadsInv(c, reader) /\ c \in Kernel /\ h \in Threads
      /\ c.phase = "exit" /\ c.current = h /\ c.ids = k.ids /\ c.iosb = k.iosb /\ c.polled = << >>
      /\ c.inserted = k.inserted
      /\ \A u \in Threads : u # h => c.thread[u] = k.thread[u]
      /\ k.thread[h].state = "running"
      /\ c.thread[h].state = "running" /\ c.thread[h].wait = "nothing" /\ c.thread[h].id = k.thread[h].id
      /\ c.thread[h].queue = k.thread[h].queue /\ c.thread[h].chains = k.thread[h].chains
  BY <1>1, <1>2, CalledIs
<1>4. k.polled = << >>
  BY <1>1 DEF AtCall
<1>5. PICK f \in [Kapcs -> BOOLEAN] : f = [c.inserted EXCEPT ![a] = TRUE]
  BY <1>3, KernelIs
<1>6. f[a] /\ \A b \in Kapcs : b # a => f[b] = c.inserted[b]
  BY <1>3, <1>5, KernelIs
<1>7. PICK m \in Kernel : m = [c EXCEPT !.inserted = f]
  BY <1>3 DEF Kernel
<1>8. /\ m.phase = c.phase /\ m.current = c.current /\ m.frame = c.frame /\ m.thread = c.thread
      /\ m.iosb = c.iosb /\ m.inserted = f /\ m.ids = c.ids /\ m.polled = c.polled
  BY <1>3, <1>7 DEF Kernel
<1>9. k' = NcApcQueue(m, t, a)
  BY <1>1, <1>2, <1>5, <1>7 DEF KeInsertQueueApc
<1>10. \A u \in Threads : a \notin QueueSet(k, u) /\ QueueSet(m, u) = QueueSet(k, u)
                          /\ QueueSet(c, u) = QueueSet(m, u)
  <2>1. \A u \in Threads : \A b \in QueueSet(k, u) \cap Kapcs : k.inserted[b]
    BY DEF Good, ThreadsInv, QueuesOk
  <2>2. \A u \in Threads : QueueSet(m, u) = QueueSet(k, u) /\ QueueSet(c, u) = QueueSet(m, u)
    BY <1>3, <1>8 DEF QueueSet
  <2>. QED
    BY <1>1, <2>1, <2>2
<1>11. \A u \in Threads : ContextIn(m, u) = ContextIn(c, u)
  BY <1>8 DEF ContextIn, LiveIn, InCode
<1>12. ThreadsInv(m) /\ LiveRuns(m)
  <2>1. StatesOk(m) /\ NestsOk(m) /\ NoneMissed(m) /\ IdsOk(m) /\ LiveRuns(m)
    BY <1>3, <1>8, <1>11 DEF ThreadsInv, StatesOk, NestsOk, NoneMissed, IdsOk, LiveRuns, InCode
  <2>2. QueuesOk(m)
    BY <1>3, <1>6, <1>8, <1>10 DEF ThreadsInv, QueuesOk
  <2>. QED
    BY <2>1, <2>2 DEF ThreadsInv
<1>13. a \in Apcs /\ a \notin Requests /\ Fresh(m, a)
  BY <1>6, <1>8, <1>10, ApcAssumption DEF Apcs, Fresh
<1>14. PICK d : d = NcApcQueue(m, t, a)
  OBVIOUS
<1>15. ThreadsInv(d) /\ LiveRuns(d)
  BY <1>12, <1>13, <1>14, NcApcQueueKeeps
<1>16. /\ d \in Kernel /\ SameFrame(m, d) /\ d.iosb = m.iosb
       /\ \A u \in Threads : u # t => d.thread[u] = m.thread[u]
       /\ QueuedLast(m.thread[t], d.thread[t], a) \/ BegunAtOnce(m.thread[t], d.thread[t])
  BY <1>12, <1>13, <1>14, NcApcQueueIs
<1>17. d.iosb = c.iosb /\ d.polled = << >> /\ d.ids = c.ids /\ d.current = h /\ d.frame = c.frame
       /\ d.phase = "exit" /\ (InCode(d) <=> InCode(c))
  BY <1>3, <1>8, <1>16 DEF SameFrame, InCode
<1>18. /\ d.thread[t].id = c.thread[t].id
       /\ \/ /\ d.thread[t].queue = Append(c.thread[t].queue, a) /\ d.thread[t].state = c.thread[t].state
             /\ d.thread[t].wait = c.thread[t].wait /\ d.thread[t].ctx = c.thread[t].ctx
          \/ /\ c.thread[t].queue = << >> /\ d.thread[t].queue = << >> /\ c.thread[t].state = "waiting"
             /\ c.thread[t].wait \in Alertable /\ d.thread[t].state = "ready" /\ d.thread[t].wait = "nothing"
  BY <1>8, <1>16 DEF QueuedLast, BegunAtOnce
<1>19. \A u \in Threads : u # t => d.thread[u] = c.thread[u]
  BY <1>8, <1>16
<1>20. ReadsInv(d, reader)
  <2>1. "nothing" \notin Requests /\ Requests \cap Alertable = {} /\ c.ids \in Nat
    BY <1>3, DiscReadsAssumption, KernelIs, ConstantsAre DEF Alertable
  <2>2. \A u \in Threads : QueueSet(d, u) \subseteq QueueSet(c, u) \cup {a}
    <3> TAKE u \in Threads
    <3>1. CASE u = t
      <4>1. c.thread[t].queue \in Seq(Apcs)
        BY <1>3, KernelIs, ThreadIs
      <4>2. Range(Append(c.thread[t].queue, a)) = Range(c.thread[t].queue) \cup {a} /\ Range(<< >>) = {}
        BY <1>13, <4>1, AppendIs, EmptyIs
      <4>. QED
        BY <1>18, <3>1, <4>2 DEF QueueSet
    <3>2. CASE u # t
      BY <1>19, <3>2 DEF QueueSet
    <3>. QED
      BY <3>1, <3>2
  <2>3. \A u \in Threads, q \in Requests : Waits(d, u, q) <=> Waits(c, u, q)
    BY <1>18, <1>19, <2>1 DEF Waits
  <2>4. \A u \in Threads : d.thread[u].wait \in Requests /\ d.thread[u].state \in {"ready", "running"} =>
          /\ c.thread[u].wait = d.thread[u].wait /\ c.thread[u].state = d.thread[u].state
          /\ c.thread[u].ctx = d.thread[u].ctx
    BY <1>18, <1>19, <2>1
  <2>5. \A u \in Threads : d.thread[u].wait \in Requests /\ d.thread[u].state \in {"ready", "running"} =>
          /\ c.thread[u].wait = d.thread[u].wait /\ c.thread[u].state \in {"ready", "running"}
          /\ ContextIn(d, u).eax = ContextIn(c, u).eax
    BY <1>3, <1>17, <2>4 DEF ContextIn, LiveIn
  <2>6. \A u \in Threads : d.thread[u].id = c.thread[u].id
    BY <1>18, <1>19
  <2>7. QuietReads(c, d)
    BY <1>3, <1>13, <1>17, <2>1, <2>2, <2>3, <2>5, <2>6 DEF QuietReads
  <2>. QED
    BY <1>3, <1>16, <2>7, QuietKeeps
<1>21. OnlyQueue(k, d, t) /\ k.thread[t].queue = c.thread[t].queue
  <2>1. \A u \in Threads : c.thread[u].id = k.thread[u].id /\ c.thread[u].queue = k.thread[u].queue
                           /\ c.thread[u].state = k.thread[u].state
    BY <1>3
  <2>2. d.thread[t].state \in Alive <=> c.thread[t].state \in Alive
    BY <1>18 DEF Alive
  <2>. QED
    BY <1>18, <1>19, <2>1, <2>2 DEF OnlyQueue
<1>22. PollOk(d) /\ JobsOf(d, reader) = JobsOf(k, reader)
  BY <1>4, <1>17 DEF PollOk, JobsOf
<1>. QED
  BY <1>1, <1>3, <1>9, <1>10, <1>14, <1>15, <1>17, <1>18, <1>20, <1>21, <1>22 DEF Good

(* The thread that runs ends.                                              *)
LEMMA PsTerminateKeeps ==
  ASSUME Good(k, reader), work \in BOOLEAN, PsTerminateSystemThread
  PROVE  /\ Good(k', reader') /\ work' \in BOOLEAN
         /\ k'.iosb = k.iosb /\ JobsOf(k', reader') = JobsOf(k, reader)
         /\ k.thread[k.current].state = "running" /\ k.current \in Threads
         /\ k'.thread[k.current].state = "terminated"
         /\ \A u \in Threads : /\ k'.thread[u].id = k.thread[u].id /\ k'.thread[u].queue = k.thread[u].queue
                               /\ u # k.current => (k'.thread[u].state \in Alive <=> k.thread[u].state \in Alive)
<1> DEFINE h == k.current
<1>1. /\ AtCall(k) /\ Called = CalledOf(k) /\ reader' = reader /\ work' = work
  BY GuestIs DEF PsTerminateSystemThread
<1>2. PICK c : c = CalledOf(k)
  OBVIOUS
<1>3. /\ ThreadsInv(c) /\ LiveRuns(c) /\ ReadsInv(c, reader) /\ c \in Kernel /\ h \in Threads
      /\ c.phase = "exit" /\ c.current = h /\ c.ids = k.ids /\ c.iosb = k.iosb /\ c.polled = << >>
      /\ \A u \in Threads : u # h => c.thread[u] = k.thread[u]
      /\ k.thread[h].state = "running"
      /\ c.thread[h].state = "running" /\ c.thread[h].wait = "nothing" /\ c.thread[h].id = k.thread[h].id
      /\ c.thread[h].queue = k.thread[h].queue /\ c.thread[h].chains = k.thread[h].chains
  BY <1>1, <1>2, CalledIs
<1>4. k.polled = << >>
  BY <1>1 DEF AtCall
<1> DEFINE t == c.thread[h]
           th == [t EXCEPT !.state = "terminated"]
           d == With(c, h, th)
<1>5. t \in Thread
  BY <1>3, KernelIs
<1>6. /\ th \in Thread /\ th.state = "terminated" /\ th.wait = t.wait /\ th.id = t.id /\ th.queue = t.queue
      /\ th.chains = t.chains /\ th.ctx = t.ctx
  BY <1>5 DEF Thread
<1>7. k' = d
  BY <1>1, <1>2 DEF With, PsTerminateSystemThread
<1> HIDE DEF th
<1>8. /\ d \in Kernel /\ SameFrame(c, d) /\ d.thread[h] = th
      /\ \A u \in Threads : u # h => d.thread[u] = c.thread[u]
      /\ d.iosb = c.iosb /\ d.inserted = c.inserted
  BY <1>3, <1>6, WithIs
<1> HIDE DEF d
<1>9. /\ d.phase = "exit" /\ d.current = h /\ d.ids = c.ids /\ d.frame = c.frame /\ d.polled = << >>
      /\ InCode(d)
  BY <1>3, <1>8 DEF SameFrame, InCode
<1>10. \A u \in Threads : u # h => ContextIn(d, u) = ContextIn(c, u)
  BY <1>3, <1>8, <1>9 DEF ContextIn, LiveIn
<1>11. ThreadsInv(d)
  <2>1. StatesOk(d)
    <3>1. \A u \in Threads : u # h => d.thread[u].state \in {"free", "ready", "waiting"}
      BY <1>3, <1>8 DEF ThreadsInv, StatesOk
    <3>. QED
      BY <1>6, <1>8, <1>9, <3>1 DEF StatesOk
  <2>2. \A u \in Threads : Alike(c.thread[u], d.thread[u])
    BY <1>3, <1>6, <1>8 DEF Alike
  <2>3. \A u \in Threads : d.thread[u].state \in Alive \/ d.thread[u].state = "waiting" => u # h
    BY <1>6, <1>8 DEF Alive
  <2>4. \A u \in Threads : d.thread[u].state \in Alive =>
           c.thread[u].state \in Alive /\ ContextIn(d, u).place = ContextIn(c, u).place
    BY <1>8, <1>10, <2>3
  <2>5. \A u \in Threads : d.thread[u].state = "waiting" /\ d.thread[u].wait \in Alertable =>
           (c.thread[u].state = "waiting" /\ c.thread[u].wait \in Alertable) \/ ~NcApcPending(c.thread[u])
    BY <1>8, <2>3
  <2>. QED
    BY <1>3, <1>8, <1>9, <2>1, <2>2, <2>4, <2>5, PlainKeeps
<1>12. ReadsInv(d, reader)
  <2>1. "nothing" \notin Requests /\ c.ids \in Nat
    BY <1>3, DiscReadsAssumption, KernelIs, ConstantsAre
  <2>2. \A u \in Threads : d.thread[u].wait \in Requests => u # h
    BY <1>3, <1>6, <1>8, <2>1
  <2>3. \A u \in Threads, q \in Requests : Waits(d, u, q) <=> Waits(c, u, q)
    BY <1>3, <1>6, <1>8 DEF Waits
  <2>4. \A u \in Threads : d.thread[u].id = c.thread[u].id /\ QueueSet(d, u) = QueueSet(c, u)
    BY <1>3, <1>6, <1>8 DEF QueueSet
  <2>5. \A u \in Threads : d.thread[u].wait \in Requests =>
          d.thread[u] = c.thread[u] /\ ContextIn(d, u) = ContextIn(c, u)
    BY <1>8, <1>10, <2>2
  <2>6. d.polled = c.polled /\ d.iosb = c.iosb /\ c.ids <= d.ids
    BY <1>3, <1>8, <1>9, <2>1
  <2>7. QuietReads(c, d)
    BY <2>3, <2>4, <2>5, <2>6 DEF QuietReads
  <2>. QED
    BY <1>3, <1>8, <2>7, QuietKeeps
<1>13. PollOk(d) /\ JobsOf(d, reader) = JobsOf(k, reader)
  BY <1>4, <1>9 DEF PollOk, JobsOf
<1>. QED
  BY <1>1, <1>3, <1>6, <1>7, <1>8, <1>11, <1>12, <1>13 DEF Good

(* A thread starts in the slot t.                                          *)
Started(s, r, t) ==
  /\ s.thread[t].state = "free" /\ r.thread[t].id = s.ids + 1 /\ r.thread[t].queue = << >>
  /\ r.thread[t].state = "ready"
  /\ \A u \in Threads : u # t => /\ r.thread[u].id = s.thread[u].id /\ r.thread[u].queue = s.thread[u].queue
                                 /\ r.thread[u].state \in Alive <=> s.thread[u].state \in Alive

LEMMA NewThreadIs ==
  ASSUME NEW i \in 0 .. MaxThreadId
  PROVE  LET th == NewThread(i)
         IN /\ th \in Thread /\ th.id = i /\ th.state = "ready" /\ th.queue = << >> /\ th.chains = << >>
            /\ th.wait = "nothing" /\ th.ctx = Nowhere
<1>1. << >> \in Seq(Apcs) /\ << >> \in Seq(Chains)
  BY EmptyIs
<1>2. [place |-> InTitle, eax |-> "none"] \in Contexts
  BY ConstantsAre DEF Nowhere
<1>. QED
  BY <1>1, <1>2 DEF NewThread, Thread, Nowhere

(* A thread starts, with an id nobody had.                                 *)
LEMMA PsCreateKeeps ==
  ASSUME Good(k, reader), work \in BOOLEAN, NEW t \in Threads, PsCreateSystemThread(t)
  PROVE  /\ Good(k', reader') /\ work' \in BOOLEAN
         /\ k'.iosb = k.iosb /\ JobsOf(k', reader') = JobsOf(k, reader)
         /\ Started(k, k', t) /\ k.ids < MaxThreadId
<1> DEFINE h == k.current
<1>1. /\ AtCall(k) /\ Called = CalledOf(k) /\ reader' = reader /\ work' = work
      /\ k.thread[t].state = "free" /\ k.ids < MaxThreadId
  BY GuestIs DEF PsCreateSystemThread
<1>2. PICK c : c = CalledOf(k)
  OBVIOUS
<1>3. /\ ThreadsInv(c) /\ LiveRuns(c) /\ ReadsInv(c, reader) /\ c \in Kernel /\ h \in Threads
      /\ c.phase = "exit" /\ c.current = h /\ c.ids = k.ids /\ c.iosb = k.iosb /\ c.polled = << >>
      /\ \A u \in Threads : u # h => c.thread[u] = k.thread[u]
      /\ k.thread[h].state = "running"
      /\ c.thread[h].state = "running" /\ c.thread[h].wait = "nothing" /\ c.thread[h].id = k.thread[h].id
      /\ c.thread[h].queue = k.thread[h].queue /\ c.thread[h].chains = k.thread[h].chains
  BY <1>1, <1>2, CalledIs
<1>4. k.polled = << >> /\ t # h
  BY <1>1, <1>3 DEF AtCall
<1>5. PICK i \in Nat : i = k.ids
  BY <1>3, KernelIs, ConstantsAre
<1>6. i + 1 \in 1 .. MaxThreadId /\ i + 1 \in 0 .. MaxThreadId /\ i >= 1
  <2>1. i < MaxThreadId /\ MaxThreadId \in Nat
    BY <1>1, <1>5, ConstantsAre
  <2>2. i \in 1 .. MaxThreadId
    BY <1>3, <1>5, KernelIs
  <2>. QED
    BY <2>1, <2>2
<1> DEFINE th == NewThread(i + 1)
           m == With(c, t, th)
<1>7. /\ th \in Thread /\ th.id = i + 1 /\ th.state = "ready" /\ th.queue = << >> /\ th.chains = << >>
      /\ th.wait = "nothing" /\ th.ctx = Nowhere
  BY <1>6, NewThreadIs
<1>8. k' = [m EXCEPT !.ids = @ + 1]
  BY <1>1, <1>2, <1>5 DEF PsCreateSystemThread, With
<1> HIDE DEF th
<1>9. /\ m \in Kernel /\ SameFrame(c, m) /\ m.thread[t] = th
      /\ \A u \in Threads : u # t => m.thread[u] = c.thread[u]
      /\ m.iosb = c.iosb /\ m.inserted = c.inserted
  BY <1>3, <1>7, WithIs
<1> HIDE DEF m
<1>10. PICK n \in 1 .. MaxThreadId : n = i + 1
  BY <1>6
<1>11. PICK d \in Kernel : d = [m EXCEPT !.ids = n]
  BY <1>9 DEF Kernel
<1>12. k' = d
  <2>1. m.ids + 1 = n
    BY <1>3, <1>5, <1>9, <1>10 DEF SameFrame
  <2>. QED
    BY <1>8, <1>11, <2>1
<1>13. /\ d.phase = "exit" /\ d.current = h /\ d.ids = n /\ d.frame = c.frame /\ d.polled = << >>
       /\ d.thread[t] = th /\ \A u \in Threads : u # t => d.thread[u] = c.thread[u]
       /\ d.iosb = c.iosb /\ d.inserted = c.inserted /\ InCode(d)
  BY <1>3, <1>9, <1>11 DEF SameFrame, Kernel, InCode
<1>14. \A u \in Threads : u # t => ContextIn(d, u) = ContextIn(c, u)
  BY <1>3, <1>4, <1>13 DEF ContextIn, LiveIn, InCode
<1>15. ContextIn(d, t) = Nowhere /\ c.thread[t].state = "free"
  BY <1>1, <1>3, <1>4, <1>7, <1>13 DEF ContextIn, LiveIn
<1>16. IdsOk(c) /\ c.ids = i /\ c.thread[t].id = 0
  <2>1. IdsOk(c)
    BY <1>3 DEF ThreadsInv
  <2>. QED
    BY <1>3, <1>5, <1>15, <2>1 DEF IdsOk
<1>17. IdsOk(d)
  <2>1. \A u \in Threads : u # t => d.thread[u].id \in 0 .. i /\ d.thread[u].id # n
    BY <1>10, <1>13, <1>16 DEF IdsOk
  <2>2. \A u \in Threads : d.thread[u].id \in 0 .. d.ids
    BY <1>7, <1>10, <1>13, <2>1
  <2>3. d.thread[t].id = n /\ n # 0
    BY <1>7, <1>10, <1>13
  <2>4. \A u \in Threads : d.thread[u].id = 0 <=> d.thread[u].state = "free"
    BY <1>7, <1>13, <1>16, <2>3 DEF IdsOk
  <2>5. \A u, v \in Threads : d.thread[u].id = d.thread[v].id /\ d.thread[u].id # 0 => u = v
    BY <1>13, <1>16, <2>1, <2>3 DEF IdsOk
  <2>. QED
    BY <2>2, <2>4, <2>5 DEF IdsOk
<1>18. ThreadsInv(d)
  <2>1. StatesOk(d)
    <3>1. \A u \in Threads : u # h => d.thread[u].state \in {"free", "ready", "waiting"}
      BY <1>3, <1>7, <1>13 DEF ThreadsInv, StatesOk
    <3>2. d.thread[h].state = "running"
      BY <1>3, <1>4, <1>13
    <3>. QED
      BY <1>13, <3>1, <3>2 DEF StatesOk
  <2>2. \A u \in Threads : u # t => Alike(c.thread[u], d.thread[u])
    BY <1>13 DEF Alike
  <2>3. \A u \in Threads : u # t /\ d.thread[u].state \in Alive =>
           c.thread[u].state \in Alive /\ ContextIn(d, u).place = ContextIn(c, u).place
    BY <1>13, <1>14
  <2>4. \A u \in Threads : u # t /\ d.thread[u].state = "waiting" /\ d.thread[u].wait \in Alertable =>
           c.thread[u].state = "waiting" /\ c.thread[u].wait \in Alertable
    BY <1>13
  <2>5. d.thread[t].queue = << >> /\ d.thread[t].chains = << >> /\ d.thread[t].state = "ready"
        /\ ContextIn(d, t).place = InTitle
    BY <1>7, <1>13, <1>15 DEF Nowhere
  <2>. QED
    BY <1>3, <1>13, <1>17, <2>1, <2>2, <2>3, <2>4, <2>5, BlankKeeps
<1>19. ReadsInv(d, reader)
  <2>1. "nothing" \notin Requests
    BY DiscReadsAssumption
  <2>2. \A u \in Threads : d.thread[u].wait \in Requests => u # t
    BY <1>7, <1>13, <2>1
  <2>3. \A u \in Threads, q \in Requests : Waits(d, u, q) <=> Waits(c, u, q)
    BY <1>7, <1>13, <1>15 DEF Waits
  <2>4. \A u \in Threads : QueueSet(d, u) \subseteq QueueSet(c, u)
    BY <1>7, <1>13, EmptyIs DEF QueueSet
  <2>5. \A u \in Threads : d.thread[u].wait \in Requests =>
          d.thread[u] = c.thread[u] /\ ContextIn(d, u) = ContextIn(c, u)
    BY <1>13, <1>14, <2>2
  <2>6. d.polled = c.polled /\ d.iosb = c.iosb /\ c.ids <= d.ids /\ n > c.ids
    BY <1>3, <1>10, <1>13, <1>16
  <2>7. /\ \A u \in Threads : d.thread[u].id = c.thread[u].id \/ d.thread[u].id > c.ids \/ d.thread[u].id = 0
        /\ \A u \in Threads : c.thread[u].state = "waiting" => d.thread[u].id = c.thread[u].id
    BY <1>7, <1>10, <1>13, <1>15, <2>6
  <2>8. QuietReads(c, d)
    BY <2>3, <2>4, <2>5, <2>6, <2>7 DEF QuietReads
  <2>. QED
    BY <1>3, <2>8, QuietKeeps
<1>20. PollOk(d) /\ JobsOf(d, reader) = JobsOf(k, reader)
  BY <1>4, <1>13 DEF PollOk, JobsOf
<1>21. Started(k, d, t)
  <2>1. \A u \in Threads : u # t => /\ d.thread[u].id = k.thread[u].id /\ d.thread[u].queue = k.thread[u].queue
                                    /\ d.thread[u].state = k.thread[u].state
    BY <1>3, <1>13
  <2>. QED
    BY <1>1, <1>5, <1>7, <1>13, <2>1 DEF Started
<1>. QED
  BY <1>1, <1>3, <1>12, <1>13, <1>18, <1>19, <1>20, <1>21 DEF Good

-----------------------------------------------------------------------------
(***************************************************************************)
(* The specification.                                                      *)
(***************************************************************************)
LEMMA InitHolds == Init => IInv
<1> SUFFICES ASSUME Init PROVE IInv
  OBVIOUS
<1> DEFINE h == FirstSlot(Threads)
           th == [NewThread(1) EXCEPT !.state = "running"]
<1>1. h \in Threads /\ Nowhere \in Contexts /\ 1 \in 1 .. MaxThreadId /\ 1 \in 0 .. MaxThreadId
      /\ 0 \in 0 .. DISC_JOBS
  BY ConstantsAre
<1>2. /\ th \in Thread /\ th.id = 1 /\ th.state = "running" /\ th.queue = << >> /\ th.chains = << >>
      /\ th.wait = "nothing"
  BY <1>1, NewThreadIs DEF Thread
<1>3. /\ << >> \in Seq(JobOf) /\ Range(<< >>) = {} /\ Distinct(<< >>) /\ Len(<< >>) = 0
      /\ IsInjective(<< >>)
  BY EmptyIs
<1> DEFINE f == [t \in Threads |-> IF t = h THEN th ELSE Free]
<1>4. f \in [Threads -> Thread] /\ f[h] = th /\ \A t \in Threads : t # h => f[t] = Free
  <2> HIDE DEF th, h
  <2>. QED
    BY <1>1, <1>2, FreeIs
<1>5. /\ k.phase = "guest" /\ k.current = h /\ k.frame = Nowhere /\ k.thread = f
      /\ k.event = [e \in Events |-> FALSE] /\ k.iosb = [r \in Requests |-> "done"]
      /\ k.inserted = [a \in Kapcs |-> FALSE] /\ k.ids = 1 /\ k.polled = << >>
  BY DEF Init
<1>6. k \in Kernel
  <2>1. k = [phase |-> "guest", current |-> h, frame |-> Nowhere, thread |-> f,
             event |-> [e \in Events |-> FALSE], iosb |-> [r \in Requests |-> "done"],
             inserted |-> [a \in Kapcs |-> FALSE], ids |-> 1, polled |-> << >>]
    BY DEF Init
  <2>2. "guest" \in Phases /\ [e \in Events |-> FALSE] \in [Events -> BOOLEAN]
        /\ [r \in Requests |-> "done"] \in [Requests -> {"pending", "done"}]
        /\ [a \in Kapcs |-> FALSE] \in [Kapcs -> BOOLEAN]
    BY DEF Phases
  <2> HIDE DEF f
  <2>. QED
    BY <1>1, <1>3, <1>4, <2>1, <2>2 DEF Kernel
<1> HIDE DEF f, th
<1>7. \A t \in Threads : k.thread[t].queue = << >> /\ QueueSet(k, t) = {}
  BY <1>2, <1>3, <1>4, <1>5, FreeIs DEF QueueSet
<1>8. StatesOk(k) /\ InCode(k)
  BY <1>2, <1>4, <1>5, FreeIs DEF StatesOk, InCode
<1>9. NestsOk(k)
  <2> SUFFICES ASSUME NEW t \in Threads, k.thread[t].state \in Alive
               PROVE  NestOk(k.thread[t], ContextIn(k, t).place)
    BY DEF NestsOk
  <2>1. t = h
    BY <1>4, <1>5, FreeIs DEF Alive
  <2>2. ContextIn(k, t) = Nowhere
    BY <1>2, <1>4, <1>5, <1>8, <2>1 DEF ContextIn, LiveIn
  <2>3. k.thread[t].chains = << >> /\ DOMAIN k.thread[t].chains = {} /\ Len(k.thread[t].chains) = 0
    BY <1>2, <1>4, <1>5, <2>1
  <2>4. At(k.thread[t].chains, 0) = InTitle /\ Nowhere.place = InTitle
    BY DEF At, InTitle, Nowhere
  <2>. QED
    BY <2>2, <2>3, <2>4, ConstantsAre DEF NestOk
<1>10. NoneMissed(k)
  BY <1>2, <1>4, <1>5, FreeIs DEF NoneMissed
<1>11. QueuesOk(k)
  BY <1>3, <1>7 DEF QueuesOk
<1>12. IdsOk(k)
  <2>1. \A t \in Threads : k.thread[t].id = IF t = h THEN 1 ELSE 0
    BY <1>2, <1>4, <1>5, FreeIs
  <2>2. \A t \in Threads : k.thread[t].state = "free" <=> t # h
    BY <1>2, <1>4, <1>5, FreeIs
  <2>. QED
    BY <1>5, <2>1, <2>2 DEF IdsOk
<1>13. /\ reader = [queue |-> << >>, done |-> << >>, busy |-> 0, posting |-> FALSE] /\ work = FALSE
  BY DEF Init
<1>14. reader \in Readers
  BY <1>1, <1>3, <1>13 DEF Readers
<1>15. reader.queue = << >> /\ reader.done = << >> /\ reader.busy = 0
  BY <1>13
<1>16. JobsOf(k, reader) = {}
  BY <1>3, <1>5, <1>15 DEF JobsOf
<1>17. JobsOk(k, reader)
  BY <1>3, <1>5, <1>14, <1>15, <1>16 DEF JobsOk, Apart
<1>18. PendingUnqueued(k) /\ JobThreads(k, JobsOf(k, reader))
  BY <1>5, <1>16 DEF PendingUnqueued, JobThreads
<1>19. SyncOk(k)
  <2>1. \A t \in Threads : k.thread[t].wait = "nothing"
    BY <1>2, <1>4, <1>5, FreeIs
  <2>. QED
    BY <2>1, DiscReadsAssumption DEF SyncOk
<1>. QED
  BY <1>5, <1>6, <1>8, <1>9, <1>10, <1>11, <1>12, <1>13, <1>17, <1>18, <1>19
     DEF IInv, Good, ThreadsInv, PollOk, ReadsInv

(* Every step keeps the invariant.                                         *)
LEMMA NextKeeps == IInv /\ [Next]_vars => IInv'
<1> SUFFICES ASSUME IInv, [Next]_vars PROVE Good(k', reader') /\ work' \in BOOLEAN
  BY DEF IInv
<1>0. Good(k, reader) /\ work \in BOOLEAN
  BY DEF IInv
<1>1. CASE Call
  <2>1. ASSUME NEW r \in Requests, DiscReadLater(r) PROVE Good(k', reader') /\ work' \in BOOLEAN
    BY <1>0, <2>1, DiscReadLaterKeeps
  <2>2. ASSUME NEW r \in Requests, ReadInPlace(r) PROVE Good(k', reader') /\ work' \in BOOLEAN
    BY <1>0, <2>2, ReadInPlaceKeeps
  <2>3. ASSUME NEW e \in Events \cup {"sleep"}, AlertableWait(e) PROVE Good(k', reader') /\ work' \in BOOLEAN
    BY <1>0, <2>3, AlertableWaitKeeps
  <2>4. ASSUME NEW a \in Kapcs, NEW t \in Threads, KeInsertQueueApc(a, t)
        PROVE  Good(k', reader') /\ work' \in BOOLEAN
    BY <1>0, <2>4, KeInsertQueueApcKeeps
  <2>5. ASSUME NEW cleared \in BOOLEAN, ApcReturn(cleared) PROVE Good(k', reader') /\ work' \in BOOLEAN
    BY <1>0, <2>5, ApcReturnKeeps
  <2>6. ASSUME PsTerminateSystemThread PROVE Good(k', reader') /\ work' \in BOOLEAN
    BY <1>0, <2>6, PsTerminateKeeps
  <2>7. ASSUME NEW t \in Threads, PsCreateSystemThread(t) PROVE Good(k', reader') /\ work' \in BOOLEAN
    BY <1>0, <2>7, PsCreateKeeps
  <2>. QED
    BY <1>1, <2>1, <2>2, <2>3, <2>4, <2>5, <2>6, <2>7 DEF Call
<1>2. CASE Interrupt
  BY <1>0, <1>2, InterruptKeeps
<1>3. CASE Poll
  BY <1>0, <1>3, PollKeeps
<1>4. CASE CompleteNext
  BY <1>0, <1>4, CompleteNextKeeps
<1>5. CASE BackToGuest
  BY <1>0, <1>5, BackToGuestKeeps
<1>6. CASE Schedule
  BY <1>0, <1>6, ScheduleKeeps
<1>7. CASE Pass
  BY <1>0, <1>7, PassKeeps
<1>8. CASE Idle
  BY <1>0, <1>8, IdleKeeps
<1>9. CASE \E t \in Threads : Pick(t)
  BY <1>0, <1>9, PickKeeps
<1>10. CASE Drain
  BY <1>0, <1>10, DrainKeeps
<1>11. CASE ReaderRead
  BY <1>0, <1>11, ReaderReadKeeps
<1>12. CASE ReaderPost
  BY <1>0, <1>12, ReaderPostKeeps
<1>13. CASE UNCHANGED vars
  BY <1>0, <1>13 DEF vars
<1>. QED
  BY <1>1, <1>2, <1>3, <1>4, <1>5, <1>6, <1>7, <1>8, <1>9, <1>10, <1>11, <1>12, <1>13
     DEF Next, Cpu, Reader

(* The inductive invariant holds in every reachable state: threads,        *)
(* chains, queues, ids, jobs and synchronous waits (apc.c, io.c, ke.c,     *)
(* ps.c).                                                                  *)
THEOREM Invariant == Spec => []IInv
<1>. QED
  BY InitHolds, NextKeeps, PTL DEF Spec

(* The jobs as one sequence.                                               *)
LEMMA ConcatIs ==
  ASSUME NEW p \in Seq(JobOf), NEW q \in Seq(JobOf), Distinct(p), Distinct(q), Apart(p, q)
  PROVE  /\ p \o q \in Seq(JobOf) /\ Range(p \o q) = Range(p) \cup Range(q)
         /\ Distinct(p \o q)
<1>1. PICK m \in Nat : m = Len(p)
  BY LenProperties
<1>2. PICK n \in Nat : n = Len(q)
  BY LenProperties
<1>3. PICK c \in Seq(JobOf) : c = p \o q
  BY ConcatProperties
<1>4. /\ DOMAIN p = 1 .. m /\ DOMAIN q = 1 .. n /\ DOMAIN c = 1 .. (m + n)
      /\ \A i \in 1 .. m : c[i] = p[i]
      /\ \A i \in 1 .. n : c[m + i] = q[i]
  BY <1>1, <1>2, <1>3
<1>5. \A i \in 1 .. (m + n) : (i \in 1 .. m) \/ (i - m \in 1 .. n /\ m + (i - m) = i)
  OBVIOUS
<1>6. \A i \in 1 .. m : i \in 1 .. (m + n)
  OBVIOUS
<1>7. \A i \in 1 .. n : m + i \in 1 .. (m + n)
  OBVIOUS
<1>8. Range(c) = Range(p) \cup Range(q)
  <2>1. ASSUME NEW i \in DOMAIN c PROVE c[i] \in Range(p) \cup Range(q)
    <3>1. CASE i \in 1 .. m
      BY <1>4, <3>1 DEF Range
    <3>2. CASE i - m \in 1 .. n /\ m + (i - m) = i
      <4>1. c[i] = q[i - m]
        BY <1>4, <3>2
      <4>. QED
        BY <1>4, <3>2, <4>1 DEF Range
    <3>. QED
      BY <1>4, <1>5, <3>1, <3>2
  <2>2. \A i \in DOMAIN p : p[i] \in Range(c)
    BY <1>4, <1>6 DEF Range
  <2>3. ASSUME NEW i \in DOMAIN q PROVE q[i] \in Range(c)
    <3>1. m + i \in DOMAIN c /\ c[m + i] = q[i]
      BY <1>4, <1>7
    <3>. QED
      BY <3>1 DEF Range
  <2>. QED
    BY <2>1, <2>2, <2>3 DEF Range
<1>9. Distinct(c)
  <2> SUFFICES ASSUME NEW i \in DOMAIN c, NEW j \in DOMAIN c, c[i].request = c[j].request PROVE i = j
    BY DEF Distinct
  <2>1. /\ \A a, b \in 1 .. m : p[a].request = p[b].request => a = b
        /\ \A a, b \in 1 .. n : q[a].request = q[b].request => a = b
    BY <1>4 DEF Distinct
  <2>2. \A a \in 1 .. m, b \in 1 .. n : p[a].request # q[b].request
    BY <1>4 DEF Apart, Range
  <2>3. i \in Int /\ j \in Int
    BY <1>4
  <2>4. CASE i \in 1 .. m /\ j \in 1 .. m
    BY <1>4, <2>1, <2>4
  <2>5. CASE i \in 1 .. m /\ j - m \in 1 .. n /\ m + (j - m) = j
    <3>1. c[i] = p[i] /\ c[j] = q[j - m]
      BY <1>4, <2>5
    <3>. QED
      BY <2>2, <2>5, <3>1
  <2>6. CASE j \in 1 .. m /\ i - m \in 1 .. n /\ m + (i - m) = i
    <3>1. c[j] = p[j] /\ c[i] = q[i - m]
      BY <1>4, <2>6
    <3>. QED
      BY <2>2, <2>6, <3>1
  <2>7. CASE /\ i - m \in 1 .. n /\ m + (i - m) = i
             /\ j - m \in 1 .. n /\ m + (j - m) = j
    <3>1. c[i] = q[i - m] /\ c[j] = q[j - m]
      BY <1>4, <2>7
    <3>2. i - m = j - m
      BY <2>1, <2>7, <3>1
    <3>. QED
      BY <2>3, <2>7, <3>2
  <2>. QED
    BY <1>4, <1>5, <2>4, <2>5, <2>6, <2>7
<1>. QED
  BY <1>3, <1>8, <1>9

JobsIn(s, rd) == rd.queue \o rd.done \o s.polled

LEMMA JobsIs ==
  ASSUME NEW s, NEW rd, Good(s, rd)
  PROVE  JobsIn(s, rd) \in Seq(JobOf) /\ Range(JobsIn(s, rd)) = JobsOf(s, rd) /\ Distinct(JobsIn(s, rd))
<1>1. /\ rd.queue \in Seq(JobOf) /\ rd.done \in Seq(JobOf) /\ s.polled \in Seq(JobOf)
  BY JobsAre DEF Good, ThreadsInv, ReadsInv, JobsOk
<1>2. /\ Distinct(rd.queue) /\ Distinct(rd.done) /\ Distinct(s.polled)
      /\ Apart(rd.queue, rd.done) /\ Apart(rd.queue, s.polled) /\ Apart(rd.done, s.polled)
  BY DEF Good, ReadsInv, JobsOk
<1>3. PICK c : c = rd.queue \o rd.done
  OBVIOUS
<1>4. c \in Seq(JobOf) /\ Range(c) = Range(rd.queue) \cup Range(rd.done) /\ Distinct(c)
  BY <1>1, <1>2, <1>3, ConcatIs
<1>5. Apart(c, s.polled)
  BY <1>2, <1>4 DEF Apart
<1>6. JobsIn(s, rd) = c \o s.polled
  BY <1>3 DEF JobsIn
<1>7. c \o s.polled \in Seq(JobOf) /\ Range(c \o s.polled) = Range(c) \cup Range(s.polled)
      /\ Distinct(c \o s.polled)
  BY <1>1, <1>2, <1>4, <1>5, ConcatIs
<1>. QED
  BY <1>4, <1>6, <1>7 DEF JobsOf

(* It implies what the runs check.                                         *)
LEMMA InvariantTypes == IInv => TypeOK
<1> SUFFICES ASSUME IInv PROVE TypeOK
  OBVIOUS
<1>1. Jobs \in Seq(JobOf) /\ Range(Jobs) = JobsOf(k, reader) /\ Distinct(Jobs)
  <2>1. Jobs = JobsIn(k, reader)
    BY DEF Jobs, JobsIn
  <2>. QED
    BY <2>1, JobsIs DEF IInv
<1>2. k \in Kernel /\ reader \in Readers
  BY DEF IInv, Good, ThreadsInv, ReadsInv, JobsOk
<1>3. Range(Jobs) \subseteq JobOf
  BY <1>1, <1>2, JobsAre
<1>4. reader.posting \in BOOLEAN /\ reader.busy <= DISC_JOBS
  BY <1>2, JobsAre
<1>5. reader.busy = Len(reader.queue) + Len(reader.done)
  BY DEF IInv, Good, ReadsInv, JobsOk
<1>6. ASSUME NEW r \in Requests
      PROVE  Cardinality({n \in DOMAIN Jobs : Jobs[n].request = r}) = IF k.iosb[r] = "pending" THEN 1 ELSE 0
  <2> DEFINE N == {n \in DOMAIN Jobs : Jobs[n].request = r}
  <2>1. k.iosb[r] = "pending" <=> \E j \in Range(Jobs) : j.request = r
    BY <1>1 DEF IInv, Good, ReadsInv, JobsOk
  <2>2. CASE k.iosb[r] = "pending"
    <3>1. PICK n \in DOMAIN Jobs : Jobs[n].request = r
      BY <2>1, <2>2 DEF Range
    <3>2. N = {n}
      BY <1>1, <3>1 DEF Distinct
    <3>3. Cardinality(N) = 1
      BY <3>2, FS_Singleton
    <3>. QED
      BY <2>2, <3>3
  <2>3. CASE k.iosb[r] # "pending"
    <3>1. N = {}
      BY <2>1, <2>3 DEF Range
    <3>2. Cardinality(N) = 0
      BY <3>1, FS_EmptySet
    <3>. QED
      BY <2>3, <3>2
  <2>. QED
    BY <2>2, <2>3
<1>7. /\ k.phase \in {"guest", "exit", "leave", "pass", "pick"}
      /\ k.current \in Threads /\ k.frame \in Contexts
      /\ k.thread \in [Threads -> Thread]
      /\ k.event \in [Events -> BOOLEAN] /\ k.inserted \in [Kapcs -> BOOLEAN]
      /\ k.iosb \in [Requests -> {"pending", "done"}]
  BY <1>2, KernelIs DEF Phases
<1>8. work \in BOOLEAN
  BY DEF IInv
<1>. QED
  BY <1>3, <1>4, <1>5, <1>6, <1>7, <1>8 DEF TypeOK

(* The fields hold what the code's can, the reader's two arrays have room  *)
(* for what is in them (busy counts it), and each pending request has the  *)
(* one job.                                                                *)
THEOREM TypeCorrect == Spec => []TypeOK
<1>. QED
  BY Invariant, InvariantTypes, PTL

LEMMA InvariantContexts == IInv => ContextsExact
<1> SUFFICES ASSUME IInv PROVE ContextsExact
  OBVIOUS
<1>1. \A t \in Threads : Context(t) = ContextIn(k, t)
  BY DEF Context, ContextIn, Live, LiveIn, InCode
<1>2. \A t \in Threads : k.thread[t].state \notin {"free", "terminated"} => k.thread[t].state \in Alive
  <2> TAKE t \in Threads
  <2>1. k.thread[t] \in Thread
    BY KernelIs DEF IInv, Good, ThreadsInv
  <2>. QED
    BY <2>1, ThreadIs DEF Alive
<1>3. ChainsNest
  <2> SUFFICES ASSUME NEW t \in Threads, k.thread[t].state \notin {"free", "terminated"}
               PROVE  /\ Context(t).place = At(k.thread[t].chains, Len(k.thread[t].chains))
                      /\ \A n \in DOMAIN k.thread[t].chains :
                           k.thread[t].chains[n].ret = At(k.thread[t].chains, n - 1)
    BY DEF ChainsNest
  <2>1. NestOk(k.thread[t], ContextIn(k, t).place)
    BY <1>2 DEF IInv, Good, ThreadsInv, NestsOk
  <2>. QED
    BY <1>1, <2>1 DEF NestOk
<1>4. SyncReadReturns
  <2> SUFFICES ASSUME NEW t \in Threads, NEW r \in Requests, k.thread[t].wait = r,
                      k.thread[t].state \in {"ready", "running", "waiting"}
               PROVE  IF k.thread[t].state = "waiting" THEN k.iosb[r] = "pending"
                      ELSE k.iosb[r] = "done" /\ Context(t).eax = "done"
    BY DEF SyncReadReturns
  <2>1. IF k.thread[t].state = "waiting" THEN k.iosb[r] = "pending"
        ELSE k.iosb[r] = "done" /\ ContextIn(k, t).eax = "done"
    BY DEF IInv, Good, ReadsInv, SyncOk, Alive
  <2>. QED
    BY <1>1, <2>1
<1>. QED
  BY <1>3, <1>4 DEF ContextsExact

(* Nothing writes a context that is then written over, and nobody goes on  *)
(* from another's: chains nest and return where they were begun, and a     *)
(* synchronous read returns with its status (nc_apc_return, nc_ke_wake,    *)
(* nc_io_poll).                                                            *)
THEOREM ContextsAreExact == Spec => []ContextsExact
<1>. QED
  BY Invariant, InvariantContexts, PTL

LEMMA InvariantApcs == IInv => ApcsKept
  BY DEF IInv, Good, ThreadsInv, NoneMissed, QueuesOk, QueueSet, ApcsKept

(* No thread waits alertably with an APC that could run, an APC is in at   *)
(* most one queue and once, and a queued KAPC says so (nc_apc_queue,       *)
(* KeInsertQueueApc).                                                      *)
THEOREM ApcsAreKept == Spec => []ApcsKept
<1>. QED
  BY Invariant, InvariantApcs, PTL

-----------------------------------------------------------------------------
(***************************************************************************)
(* The promise.                                                            *)
(***************************************************************************)

(* The promise's state, of the kernel and the jobs.                        *)
AskerOf(s, J) ==
  [r \in Requests |-> IF s.iosb[r] = "pending" THEN (CHOOSE j \in J : j.request = r).id ELSE "nobody"]
AliveOf(s) == {s.thread[t].id : t \in {u \in Threads : s.thread[u].state \in Alive}}
OwedOf(s) ==
  [i \in Ids |-> LET slots == {t \in Threads : s.thread[t].id = i}
                 IN IF slots = {} THEN << >> ELSE s.thread[FirstSlot(slots)].queue]

PromisedAsker ==
  [r \in Requests |-> IF k.iosb[r] = "pending"
                        THEN (CHOOSE j \in Range(Jobs) : j.request = r).id ELSE "nobody"]
PromisedAlive == {k.thread[t].id : t \in AliveIn({"ready", "running", "waiting"})}
PromisedOwed == [i \in Ids |-> QueueOfId(i)]

(* The mapping is what DiscReads puts for the promise's variables.         *)
LEMMA PromisedIs ==
  ASSUME IInv
  PROVE  /\ PromisedAsker = AskerOf(k, JobsOf(k, reader))
         /\ PromisedAlive = AliveOf(k) /\ PromisedOwed = OwedOf(k)
<1>1. Range(Jobs) = JobsOf(k, reader)
  <2>1. Jobs = JobsIn(k, reader)
    BY DEF Jobs, JobsIn
  <2>. QED
    BY <2>1, JobsIs DEF IInv
<1>2. PromisedAsker = AskerOf(k, JobsOf(k, reader))
  BY <1>1 DEF PromisedAsker, AskerOf
<1>3. PromisedAlive = AliveOf(k)
  BY DEF PromisedAlive, AliveOf, AliveIn, Alive
<1>4. PromisedOwed = OwedOf(k)
  BY DEF PromisedOwed, OwedOf, QueueOfId
<1>. QED
  BY <1>2, <1>3, <1>4

LEMMA PromisedNext ==
  ASSUME IInv'
  PROVE  /\ PromisedAsker' = AskerOf(k', JobsOf(k', reader'))
         /\ PromisedAlive' = AliveOf(k') /\ PromisedOwed' = OwedOf(k')
<1>1. Range(Jobs)' = JobsOf(k', reader')
  <2>1. Jobs' = JobsIn(k', reader')
    BY DEF Jobs, JobsIn
  <2>2. Good(k', reader')
    BY DEF IInv
  <2>3. Range(JobsIn(k', reader')) = JobsOf(k', reader')
    BY <2>2, JobsIs
  <2>. QED
    BY <2>1, <2>3
<1>2. PromisedAsker' = AskerOf(k', JobsOf(k', reader'))
  BY <1>1 DEF PromisedAsker, AskerOf
<1>3. PromisedAlive' = AliveOf(k')
  BY DEF PromisedAlive, AliveOf, AliveIn, Alive
<1>4. PromisedOwed' = OwedOf(k')
  BY DEF PromisedOwed, OwedOf, QueueOfId
<1>. QED
  BY <1>2, <1>3, <1>4

(* What each thread is owed is in the queue of its slot.                   *)
LEMMA OwedIs ==
  ASSUME NEW s \in Kernel, IdsOk(s), NEW t \in Threads, s.thread[t].id # 0
  PROVE  s.thread[t].id \in Ids /\ OwedOf(s)[s.thread[t].id] = s.thread[t].queue
<1> DEFINE i == s.thread[t].id
           slots == {u \in Threads : s.thread[u].id = i}
<1>1. i \in Ids
  <2>1. s.thread[t] \in Thread
    BY KernelIs
  <2>. QED
    BY <2>1, ThreadIs, ConstantsAre DEF Ids
<1>2. slots = {t}
  BY DEF IdsOk
<1>3. FirstSlot(slots) = t
  <2>1. slots \in SUBSET Nat /\ slots # {}
    BY <1>2, ThreadsAssumption
  <2> HIDE DEF slots
  <2>2. FirstSlot(slots) \in slots
    BY <2>1, FirstSlotIs
  <2>. QED
    BY <1>2, <2>2
<1>4. OwedOf(s)[i] = IF slots = {} THEN << >> ELSE s.thread[FirstSlot(slots)].queue
  BY <1>1 DEF OwedOf
<1>. QED
  BY <1>1, <1>2, <1>3, <1>4

LEMMA OwedNone ==
  ASSUME NEW s, NEW i \in Ids, \A t \in Threads : s.thread[t].id # i
  PROVE  OwedOf(s)[i] = << >>
<1> DEFINE slots == {u \in Threads : s.thread[u].id = i}
<1>1. slots = {}
  OBVIOUS
<1>2. OwedOf(s)[i] = IF slots = {} THEN << >> ELSE s.thread[FirstSlot(slots)].queue
  BY DEF OwedOf
<1>. QED
  BY <1>1, <1>2

LEMMA OwedDomain ==
  ASSUME NEW s
  PROVE  OwedOf(s) = [i \in Ids |-> OwedOf(s)[i]]
  BY DEF OwedOf

(* The threads there are, by their ids.                                    *)
LEMMA AliveIs ==
  ASSUME NEW s \in Kernel, IdsOk(s), NEW t \in Threads
  PROVE  s.thread[t].id \in AliveOf(s) <=> s.thread[t].state \in Alive
<1>1. ASSUME s.thread[t].id \in AliveOf(s) PROVE s.thread[t].state \in Alive
  <2>1. PICK u \in Threads : s.thread[u].state \in Alive /\ s.thread[u].id = s.thread[t].id
    BY <1>1 DEF AliveOf
  <2>2. s.thread[u].id # 0
    BY <2>1 DEF IdsOk, Alive
  <2>3. u = t
    BY <2>1, <2>2 DEF IdsOk
  <2>. QED
    BY <2>1, <2>3
<1>2. ASSUME s.thread[t].state \in Alive PROVE s.thread[t].id \in AliveOf(s)
  BY <1>2 DEF AliveOf
<1>. QED
  BY <1>1, <1>2

(* What the mapping comes to as threads change: not at all, in a queue, in *)
(* a slot that is free, and as a thread starts or ends.                    *)
LEMMA SameMaps ==
  ASSUME NEW s, NEW r, SameThreads(s, r)
  PROVE  OwedOf(r) = OwedOf(s) /\ AliveOf(r) = AliveOf(s)
<1>1. OwedOf(r) = OwedOf(s)
  <2> SUFFICES ASSUME NEW i \in Ids PROVE OwedOf(r)[i] = OwedOf(s)[i]
    BY OwedDomain
  <2> DEFINE slots == {t \in Threads : s.thread[t].id = i}
             after == {t \in Threads : r.thread[t].id = i}
  <2>1. slots = after
    BY DEF SameThreads
  <2>2. CASE slots = {}
    BY <2>1, <2>2 DEF OwedOf
  <2>3. CASE slots # {}
    <3>1. FirstSlot(slots) \in Threads
      <4>1. slots \in SUBSET Nat
        BY ThreadsAssumption
      <4> HIDE DEF slots
      <4>2. FirstSlot(slots) \in slots
        BY <2>3, <4>1, FirstSlotIs
      <4>. QED
        BY <4>2 DEF slots
    <3>2. OwedOf(r)[i] = r.thread[FirstSlot(slots)].queue
      BY <2>1, <2>3 DEF OwedOf
    <3>3. OwedOf(s)[i] = s.thread[FirstSlot(slots)].queue
      BY <2>3 DEF OwedOf
    <3>. QED
      BY <3>1, <3>2, <3>3 DEF SameThreads
  <2>. QED
    BY <2>2, <2>3
<1>2. AliveOf(r) = AliveOf(s)
  BY DEF SameThreads, AliveOf
<1>. QED
  BY <1>1, <1>2

LEMMA QueueMaps ==
  ASSUME NEW s \in Kernel, IdsOk(s), NEW r \in Kernel, IdsOk(r), NEW h \in Threads, OnlyQueue(s, r, h),
         s.thread[h].id # 0
  PROVE  /\ OwedOf(r) = [OwedOf(s) EXCEPT ![s.thread[h].id] = r.thread[h].queue]
         /\ AliveOf(r) = AliveOf(s)
<1> DEFINE d == s.thread[h].id
<1>1. d \in Ids /\ r.thread[h].id = d /\ OwedOf(r)[d] = r.thread[h].queue
  BY OwedIs DEF OnlyQueue
<1>2. ASSUME NEW i \in Ids, i # d PROVE OwedOf(r)[i] = OwedOf(s)[i]
  <2>1. CASE \E t \in Threads : s.thread[t].id = i
    <3>1. PICK t \in Threads : s.thread[t].id = i
      BY <2>1
    <3>2. t # h /\ i # 0 /\ r.thread[t].id = i /\ r.thread[t].queue = s.thread[t].queue
      BY <1>2, <3>1 DEF OnlyQueue, Ids
    <3>. QED
      BY <3>1, <3>2, OwedIs
  <2>2. CASE ~ \E t \in Threads : s.thread[t].id = i
    <3>1. \A t \in Threads : s.thread[t].id # i /\ r.thread[t].id # i
      BY <2>2 DEF OnlyQueue
    <3>. QED
      BY <3>1, OwedNone
  <2>. QED
    BY <2>1, <2>2
<1>3. OwedOf(r) = [OwedOf(s) EXCEPT ![d] = r.thread[h].queue]
  BY <1>1, <1>2, OwedDomain
<1>4. AliveOf(r) = AliveOf(s)
  BY DEF OnlyQueue, AliveOf
<1>. QED
  BY <1>3, <1>4

LEMMA FreedMaps ==
  ASSUME NEW s \in Kernel, IdsOk(s), NEW r \in Kernel, IdsOk(r), NEW h \in Threads, FreedSlot(s, r, h)
  PROVE  /\ s.thread[h].id \in Ids \ AliveOf(s)
         /\ OwedOf(r) = [OwedOf(s) EXCEPT ![s.thread[h].id] = << >>]
         /\ AliveOf(r) = AliveOf(s)
<1> DEFINE d == s.thread[h].id
<1>1. d # 0 /\ d \in Ids /\ d \notin AliveOf(s)
  <2>1. s.thread[h].state = "terminated"
    BY DEF FreedSlot
  <2>2. d # 0
    BY <2>1 DEF IdsOk
  <2>. QED
    BY <2>1, <2>2, OwedIs, AliveIs DEF Alive
<1>2. OwedOf(r)[d] = << >>
  <2>1. \A t \in Threads : r.thread[t].id # d
    BY <1>1 DEF FreedSlot, IdsOk
  <2>. QED
    BY <1>1, <2>1, OwedNone
<1>3. ASSUME NEW i \in Ids, i # d PROVE OwedOf(r)[i] = OwedOf(s)[i]
  <2>1. CASE \E t \in Threads : s.thread[t].id = i
    <3>1. PICK t \in Threads : s.thread[t].id = i
      BY <2>1
    <3>2. t # h /\ i # 0 /\ r.thread[t].id = i /\ r.thread[t].queue = s.thread[t].queue
      BY <1>3, <3>1 DEF FreedSlot, Ids
    <3>. QED
      BY <3>1, <3>2, OwedIs
  <2>2. CASE ~ \E t \in Threads : s.thread[t].id = i
    <3>1. \A t \in Threads : s.thread[t].id # i /\ r.thread[t].id # i
      BY <2>2 DEF FreedSlot, Ids
    <3>. QED
      BY <3>1, OwedNone
  <2>. QED
    BY <2>1, <2>2
<1>4. OwedOf(r) = [OwedOf(s) EXCEPT ![d] = << >>]
  BY <1>1, <1>2, <1>3, OwedDomain
<1>5. AliveOf(r) = AliveOf(s)
  <2>1. r.thread[h].state \notin Alive /\ s.thread[h].state \notin Alive
    BY DEF FreedSlot, Alive
  <2>. QED
    BY <2>1 DEF FreedSlot, AliveOf
<1>. QED
  BY <1>1, <1>4, <1>5

LEMMA StartedMaps ==
  ASSUME NEW s \in Kernel, IdsOk(s), NEW r \in Kernel, IdsOk(r), NEW h \in Threads, Started(s, r, h),
         s.ids < MaxThreadId
  PROVE  /\ s.ids + 1 \in Ids \ AliveOf(s)
         /\ OwedOf(r) = OwedOf(s) /\ AliveOf(r) = AliveOf(s) \cup {s.ids + 1}
<1> DEFINE d == s.ids + 1
<1>1. d \in Ids /\ d # 0 /\ \A t \in Threads : s.thread[t].id # d
  <2>1. s.ids \in 1..MaxThreadId /\ MaxThreadId \in Nat
    BY KernelIs, ConstantsAre
  <2>2. ASSUME NEW t \in Threads PROVE s.thread[t].id # d
    <3>1. s.thread[t].id \in 0..s.ids
      BY DEF IdsOk
    <3>. QED
      BY <2>1, <3>1
  <2>. QED
    BY <2>1, <2>2 DEF Ids
<1>2. d \notin AliveOf(s)
  BY <1>1 DEF AliveOf
<1>3. OwedOf(r)[d] = << >> /\ OwedOf(s)[d] = << >>
  <2>1. r.thread[h].id = d /\ r.thread[h].queue = << >>
    BY DEF Started
  <2>. QED
    BY <1>1, <2>1, OwedIs, OwedNone
<1>4. s.thread[h].id = 0
  BY DEF Started, IdsOk
<1>5. ASSUME NEW i \in Ids, i # d PROVE OwedOf(r)[i] = OwedOf(s)[i]
  <2>1. CASE \E t \in Threads : s.thread[t].id = i
    <3>1. PICK t \in Threads : s.thread[t].id = i
      BY <2>1
    <3>2. t # h /\ i # 0
      BY <1>4, <3>1 DEF Ids
    <3>3. r.thread[t].id = i /\ r.thread[t].queue = s.thread[t].queue
      BY <3>1, <3>2 DEF Started
    <3>. QED
      BY <3>1, <3>2, <3>3, OwedIs
  <2>2. CASE ~ \E t \in Threads : s.thread[t].id = i
    <3>1. \A t \in Threads : s.thread[t].id # i /\ r.thread[t].id # i
      BY <1>5, <2>2 DEF Started
    <3>. QED
      BY <3>1, OwedNone
  <2>. QED
    BY <2>1, <2>2
<1>6. OwedOf(r) = OwedOf(s)
  BY <1>1, <1>3, <1>5, OwedDomain
<1>7. AliveOf(r) = AliveOf(s) \cup {d}
  <2>1. r.thread[h].state \in Alive /\ s.thread[h].state \notin Alive /\ r.thread[h].id = d
    BY DEF Started, Alive
  <2>. QED
    BY <2>1 DEF Started, AliveOf
<1>. QED
  BY <1>1, <1>2, <1>6, <1>7

LEMMA EndedMaps ==
  ASSUME NEW s \in Kernel, IdsOk(s), NEW r \in Kernel, IdsOk(r), NEW h \in Threads,
         s.thread[h].state \in Alive, r.thread[h].state \notin Alive,
         \A u \in Threads : /\ r.thread[u].id = s.thread[u].id /\ r.thread[u].queue = s.thread[u].queue
                            /\ u # h => (r.thread[u].state \in Alive <=> s.thread[u].state \in Alive)
  PROVE  /\ s.thread[h].id \in Ids \cap AliveOf(s)
         /\ OwedOf(r) = OwedOf(s) /\ AliveOf(r) = AliveOf(s) \ {s.thread[h].id}
<1> DEFINE d == s.thread[h].id
<1>1. d # 0 /\ d \in Ids /\ d \in AliveOf(s)
  <2>1. d # 0
    BY DEF IdsOk, Alive
  <2>. QED
    BY <2>1, OwedIs, AliveIs
<1>2. ASSUME NEW i \in Ids PROVE OwedOf(r)[i] = OwedOf(s)[i]
  <2>1. CASE \E t \in Threads : s.thread[t].id = i
    <3>1. PICK t \in Threads : s.thread[t].id = i
      BY <2>1
    <3>2. i # 0 /\ r.thread[t].id = i /\ r.thread[t].queue = s.thread[t].queue
      BY <3>1 DEF Ids
    <3>. QED
      BY <3>1, <3>2, OwedIs
  <2>2. CASE ~ \E t \in Threads : s.thread[t].id = i
    <3>1. \A t \in Threads : s.thread[t].id # i /\ r.thread[t].id # i
      BY <2>2
    <3>. QED
      BY <3>1, OwedNone
  <2>. QED
    BY <2>1, <2>2
<1>3. OwedOf(r) = OwedOf(s)
  BY <1>2, OwedDomain
<1>4. \A u \in Threads : u # h => s.thread[u].id # d
  BY <1>1 DEF IdsOk
<1>5. AliveOf(r) = AliveOf(s) \ {d}
  BY <1>4 DEF AliveOf
<1>. QED
  BY <1>1, <1>3, <1>5

(* A call-back nobody's queue holds is owed to nobody.                     *)
LEMMA UnqueuedMaps ==
  ASSUME NEW s \in Kernel, IdsOk(s), NEW a, \A t \in Threads : a \notin QueueSet(s, t), NEW i \in Ids
  PROVE  ~ Contains(OwedOf(s)[i], a)
<1>1. CASE \E t \in Threads : s.thread[t].id = i
  <2>1. PICK t \in Threads : s.thread[t].id = i
    BY <1>1
  <2>2. OwedOf(s)[i] = s.thread[t].queue
    BY <2>1, OwedIs DEF Ids
  <2>3. s.thread[t].queue \in Seq(Apcs)
    BY KernelIs, ThreadIs
  <2>. QED
    BY <2>2, <2>3, RangeIs DEF QueueSet
<1>2. CASE ~ \E t \in Threads : s.thread[t].id = i
  <2>1. OwedOf(s)[i] = << >>
    BY <1>2, OwedNone
  <2>2. ~ Contains(<< >>, a)
    <3>1. << >> \in Seq(Apcs) /\ Range(<< >>) = {}
      BY EmptyIs
    <3>. QED
      BY <3>1, RangeIs
  <2>. QED
    BY <2>1, <2>2
<1>. QED
  BY <1>1, <1>2

(* A request under way has one job.                                        *)
OneJob(J) == \A i, j \in J : i.request = j.request => i = j

LEMMA JobsUnique ==
  ASSUME NEW s, NEW rd, Good(s, rd)
  PROVE  OneJob(JobsOf(s, rd))
  BY JobsIs, DistinctIs DEF OneJob

(* Who asked is in the job.                                                *)
LEMMA AskerIs ==
  ASSUME NEW s, NEW J, OneJob(J), NEW j \in J, j.request \in Requests, s.iosb[j.request] = "pending"
  PROVE  AskerOf(s, J)[j.request] = j.id
<1>1. (CHOOSE i \in J : i.request = j.request) = j
  BY DEF OneJob
<1>. QED
  BY <1>1 DEF AskerOf

LEMMA AskerDomain ==
  ASSUME NEW s, NEW J
  PROVE  AskerOf(s, J) = [r \in Requests |-> AskerOf(s, J)[r]]
  BY DEF AskerOf

(* A job more, and its request is pending.                                 *)
LEMMA AskerMaps ==
  ASSUME NEW s, NEW r, NEW J, NEW job, NEW K, K = J \cup {job},
         NEW q0 \in Requests, job.request = q0,
         OneJob(K), \A j \in J : j.request # q0,
         s.iosb[q0] # "pending", r.iosb[q0] = "pending",
         \A q \in Requests : q # q0 => r.iosb[q] = s.iosb[q],
         \A q \in Requests : s.iosb[q] = "pending" => \E j \in J : j.request = q
  PROVE  /\ AskerOf(r, K) = [AskerOf(s, J) EXCEPT ![q0] = job.id]
         /\ AskerOf(s, J) = [AskerOf(r, K) EXCEPT ![q0] = "nobody"]
<1>1. AskerOf(r, K)[q0] = job.id
  <2>1. job \in K
    OBVIOUS
  <2>. QED
    BY <2>1, AskerIs
<1>2. AskerOf(s, J)[q0] = "nobody"
  BY DEF AskerOf
<1>3. ASSUME NEW q \in Requests, q # q0 PROVE AskerOf(r, K)[q] = AskerOf(s, J)[q]
  <2>1. CASE s.iosb[q] = "pending"
    <3>1. PICK j \in J : j.request = q
      BY <2>1
    <3>2. OneJob(J) /\ OneJob(K) /\ j \in K /\ r.iosb[q] = "pending"
      BY <1>3, <2>1 DEF OneJob
    <3>. QED
      BY <2>1, <3>1, <3>2, AskerIs
  <2>2. CASE s.iosb[q] # "pending"
    BY <1>3, <2>2 DEF AskerOf
  <2>. QED
    BY <2>1, <2>2
<1>4. AskerOf(r, K) = [AskerOf(s, J) EXCEPT ![q0] = job.id]
  BY <1>1, <1>3, AskerDomain
<1>5. AskerOf(s, J) = [AskerOf(r, K) EXCEPT ![q0] = "nobody"]
  <2> DEFINE f == AskerOf(s, J)
             g == AskerOf(r, K)
  <2>1. f = [q \in Requests |-> f[q]] /\ g = [q \in Requests |-> g[q]]
    BY DEF AskerOf
  <2>2. f[q0] = "nobody" /\ \A q \in Requests : q # q0 => f[q] = g[q]
    BY <1>2, <1>3
  <2> HIDE DEF f, g
  <2>3. f = [g EXCEPT ![q0] = "nobody"]
    BY <2>1, <2>2
  <2>. QED
    BY <2>3 DEF f, g
<1>. QED
  BY <1>4, <1>5

LEMMA AskerSame ==
  ASSUME NEW s, NEW r, NEW J, r.iosb = s.iosb
  PROVE  AskerOf(r, J) = AskerOf(s, J)
  BY DEF AskerOf

-----------------------------------------------------------------------------
(***************************************************************************)
(* The promise's steps, said of its state.                                 *)
(***************************************************************************)
PromisedStep == [Promise!Next]_(Promise!promised)

LEMMA StutterStep ==
  ASSUME k'.iosb = k.iosb, PromisedAsker' = PromisedAsker, PromisedAlive' = PromisedAlive,
         PromisedOwed' = PromisedOwed
  PROVE  PromisedStep
<1>1. UNCHANGED Promise!promised
  BY DEF Promise!promised, PromisedAlive, PromisedAsker, PromisedOwed
<1>. QED
  BY <1>1 DEF PromisedStep

LEMMA IssueStep ==
  ASSUME NEW r \in Requests, NEW i \in Ids, i \in PromisedAlive, k.iosb[r] # "pending",
         \A n \in Ids : ~ Contains(PromisedOwed[n], r),
         k'.iosb = [k.iosb EXCEPT ![r] = "pending"], PromisedAsker' = [PromisedAsker EXCEPT ![r] = i],
         PromisedAlive' = PromisedAlive, PromisedOwed' = PromisedOwed
  PROVE  PromisedStep
<1>1. ~ Promise!Owed(r)
  BY DEF Promise!Owed, PromisedOwed, Promise!Contains, Contains
<1>2. Promise!Issue(r, i)
  BY <1>1 DEF Promise!Issue, PromisedAlive, PromisedAsker, PromisedOwed
<1>. QED
  BY <1>2 DEF Promise!Next, PromisedStep

(* The call-back is owed, or given at once, or there is none.              *)
Owes(r, i) ==
  IF r \notin HasApc \/ i \notin PromisedAlive THEN PromisedOwed' = PromisedOwed
  ELSE \/ PromisedOwed' = [PromisedOwed EXCEPT ![i] = Append(@, r)]
       \/ PromisedOwed[i] = << >> /\ PromisedOwed' = PromisedOwed

LEMMA OwesIs ==
  ASSUME NEW r, NEW i, Owes(r, i)
  PROVE  Promise!CallBack(r, i)
  BY DEF Owes, Promise!CallBack, PromisedAlive, PromisedOwed

LEMMA CompleteStep ==
  ASSUME NEW r \in Requests, k.iosb[r] = "pending", Owes(r, PromisedAsker[r]),
         k'.iosb = [k.iosb EXCEPT ![r] = "done"], PromisedAsker' = [PromisedAsker EXCEPT ![r] = "nobody"],
         PromisedAlive' = PromisedAlive
  PROVE  PromisedStep
<1>1. Promise!CallBack(r, PromisedAsker[r])
  BY OwesIs
<1>2. Promise!Complete(r)
  BY <1>1 DEF Promise!Complete, PromisedAlive, PromisedAsker
<1>. QED
  BY <1>2 DEF Promise!Next, PromisedStep

LEMMA InPlaceStep ==
  ASSUME NEW r \in Requests, NEW i \in Ids, i \in PromisedAlive, k.iosb[r] # "pending",
         \A n \in Ids : ~ Contains(PromisedOwed[n], r), Owes(r, i),
         k'.iosb = [k.iosb EXCEPT ![r] = "done"], PromisedAsker' = PromisedAsker,
         PromisedAlive' = PromisedAlive
  PROVE  PromisedStep
<1>1. ~ Promise!Owed(r)
  BY DEF Promise!Owed, PromisedOwed, Promise!Contains, Contains
<1>2. Promise!CallBack(r, i)
  BY OwesIs
<1>3. Promise!ReadInPlace(r, i)
  BY <1>1, <1>2 DEF Promise!ReadInPlace, PromisedAlive, PromisedAsker
<1>. QED
  BY <1>3 DEF Promise!Next, PromisedStep

LEMMA InsertStep ==
  ASSUME NEW a \in Kapcs, NEW i \in Ids, \A n \in Ids : ~ Contains(PromisedOwed[n], a),
         \/ PromisedOwed' = [PromisedOwed EXCEPT ![i] = Append(@, a)]
         \/ PromisedOwed[i] = << >> /\ PromisedOwed' = PromisedOwed,
         k'.iosb = k.iosb, PromisedAsker' = PromisedAsker, PromisedAlive' = PromisedAlive
  PROVE  PromisedStep
<1>1. ~ Promise!Owed(a)
  BY DEF Promise!Owed, PromisedOwed, Promise!Contains, Contains
<1>2. Promise!Insert(a, i)
  BY <1>1 DEF Promise!Insert, PromisedAlive, PromisedAsker, PromisedOwed
<1>. QED
  BY <1>2 DEF Promise!Next, PromisedStep

LEMMA CallStep ==
  ASSUME NEW i \in Ids, PromisedOwed[i] # << >>, PromisedOwed' = [PromisedOwed EXCEPT ![i] = Tail(@)],
         k'.iosb = k.iosb, PromisedAsker' = PromisedAsker, PromisedAlive' = PromisedAlive
  PROVE  PromisedStep
<1>1. Promise!Call(i)
  BY DEF Promise!Call, PromisedAlive, PromisedAsker, PromisedOwed
<1>. QED
  BY <1>1 DEF Promise!Next, PromisedStep

LEMMA StartStep ==
  ASSUME NEW i \in Ids, i \notin PromisedAlive, PromisedAlive' = PromisedAlive \cup {i},
         k'.iosb = k.iosb, PromisedAsker' = PromisedAsker, PromisedOwed' = PromisedOwed
  PROVE  PromisedStep
<1>1. Promise!Start(i)
  BY DEF Promise!Start, PromisedAlive, PromisedAsker, PromisedOwed
<1>. QED
  BY <1>1 DEF Promise!Next, PromisedStep

LEMMA EndStep ==
  ASSUME NEW i \in Ids, i \in PromisedAlive, PromisedAlive' = PromisedAlive \ {i},
         k'.iosb = k.iosb, PromisedAsker' = PromisedAsker, PromisedOwed' = PromisedOwed
  PROVE  PromisedStep
<1>1. Promise!End(i)
  BY DEF Promise!End, PromisedAlive, PromisedAsker, PromisedOwed
<1>. QED
  BY <1>1 DEF Promise!Next, PromisedStep

LEMMA ForgetStep ==
  ASSUME NEW i \in Ids, i \notin PromisedAlive, PromisedOwed' = [PromisedOwed EXCEPT ![i] = << >>],
         k'.iosb = k.iosb, PromisedAsker' = PromisedAsker, PromisedAlive' = PromisedAlive
  PROVE  PromisedStep
<1>1. Promise!Forget(i)
  BY DEF Promise!Forget, PromisedAlive, PromisedAsker, PromisedOwed
<1>. QED
  BY <1>1 DEF Promise!Next, PromisedStep

-----------------------------------------------------------------------------
(***************************************************************************)
(* Every step is one of the promise's.                                     *)
(***************************************************************************)
(* The promise's state on both sides of a step.                            *)
LEMMA PromisedAre ==
  ASSUME IInv, IInv'
  PROVE  /\ PromisedAsker = AskerOf(k, JobsOf(k, reader))
         /\ PromisedAlive = AliveOf(k) /\ PromisedOwed = OwedOf(k)
         /\ PromisedAsker' = AskerOf(k', JobsOf(k', reader'))
         /\ PromisedAlive' = AliveOf(k') /\ PromisedOwed' = OwedOf(k')
         /\ k \in Kernel /\ IdsOk(k) /\ k' \in Kernel /\ IdsOk(k')
<1>1. k \in Kernel /\ IdsOk(k)
  BY DEF IInv, Good, ThreadsInv
<1>2. k' \in Kernel /\ IdsOk(k')
  BY DEF IInv, Good, ThreadsInv
<1>. QED
  BY <1>1, <1>2, PromisedIs, PromisedNext

(* The thread that runs.                                                   *)
LEMMA RunsIs ==
  ASSUME IInv, k.thread[k.current].state = "running", k.current \in Threads
  PROVE  /\ k.thread[k.current].id # 0 /\ k.thread[k.current].id \in Ids
         /\ k.thread[k.current].id \in AliveOf(k)
         /\ OwedOf(k)[k.thread[k.current].id] = k.thread[k.current].queue
<1>1. k \in Kernel /\ IdsOk(k)
  BY DEF IInv, Good, ThreadsInv
<1>2. k.thread[k.current].id # 0
  BY <1>1 DEF IdsOk
<1>. QED
  BY <1>1, <1>2, OwedIs, AliveIs DEF Alive

(* The steps that change nothing of the promise's.                         *)
LEMMA UnchangedMaps ==
  ASSUME IInv, IInv', SameThreads(k, k'), k'.iosb = k.iosb, JobsOf(k', reader') = JobsOf(k, reader)
  PROVE  PromisedStep
<1>1. OwedOf(k') = OwedOf(k) /\ AliveOf(k') = AliveOf(k)
  BY SameMaps
<1>2. AskerOf(k', JobsOf(k', reader')) = AskerOf(k, JobsOf(k, reader))
  BY AskerSame
<1>. QED
  BY <1>1, <1>2, PromisedAre, StutterStep

(* A read left to the reader is issued.                                    *)
LEMMA DiscReadLaterMaps ==
  ASSUME IInv, IInv', NEW r \in Requests, DiscReadLater(r)
  PROVE  PromisedStep
<1> DEFINE J == JobsOf(k, reader)
           job == JobIn(k, r)
           K == JobsOf(k', reader')
<1>1. /\ SameThreads(k, k') /\ k'.iosb = [k.iosb EXCEPT ![r] = "pending"]
      /\ K = J \cup {job}
      /\ k.thread[k.current].state = "running" /\ k.current \in Threads
  BY DiscReadLaterKeeps DEF IInv
<1>2. /\ k.iosb[r] = "done" /\ (\A t \in Threads : r \notin QueueSet(k, t))
      /\ \A j \in J : j.request # r
  <2>1. Unused(r)
    BY DEF DiscReadLater
  <2>. QED
    BY <2>1, UnusedIs DEF IInv
<1>3. job.request = r /\ job.id = k.thread[k.current].id
  BY DEF JobIn
<1>4. OneJob(K)
  <2>1. Good(k', reader')
    BY DEF IInv
  <2>. QED
    BY <2>1, JobsUnique
<1>5. k.iosb \in [Requests -> {"pending", "done"}]
  BY KernelIs DEF IInv, Good, ThreadsInv
<1>6. \A q \in Requests : k.iosb[q] = "pending" => \E j \in J : j.request = q
  BY DEF IInv, Good, ReadsInv, JobsOk
<1>7. /\ k'.iosb[r] = "pending" /\ k.iosb[r] # "pending"
      /\ \A q \in Requests : q # r => k'.iosb[q] = k.iosb[q]
  BY <1>1, <1>2, <1>5
<1> HIDE DEF J, job, K
<1>8. AskerOf(k', K) = [AskerOf(k, J) EXCEPT ![r] = job.id]
  <2>1. K = J \cup {job}
    BY <1>1
  <2>. QED
    BY <1>2, <1>3, <1>4, <1>6, <1>7, <2>1, AskerMaps
<1>9. OwedOf(k') = OwedOf(k) /\ AliveOf(k') = AliveOf(k)
  BY <1>1, SameMaps
<1>10. job.id \in Ids /\ job.id \in AliveOf(k)
  BY <1>1, <1>3, RunsIs
<1>11. k \in Kernel /\ IdsOk(k)
  BY PromisedAre
<1>12. \A n \in Ids : ~ Contains(OwedOf(k)[n], r)
  BY <1>2, <1>11, UnqueuedMaps
<1>13. PromisedAsker' = [PromisedAsker EXCEPT ![r] = job.id]
  BY <1>1, <1>8, PromisedAre DEF J, K
<1>. QED
  BY <1>1, <1>7, <1>9, <1>10, <1>12, <1>13, PromisedAre, IssueStep

(* A read in place is the promise's, or failed and nothing.                *)
LEMMA ReadInPlaceMaps ==
  ASSUME IInv, IInv', NEW r \in Requests, ReadInPlace(r)
  PROVE  PromisedStep
<1> DEFINE d == k.thread[k.current].id
<1>1. /\ k'.iosb = k.iosb /\ JobsOf(k', reader') = JobsOf(k, reader)
      /\ \/ SameThreads(k, k')
         \/ /\ r \in HasApc /\ OnlyQueue(k, k', k.current)
            /\ k'.thread[k.current].queue = Append(k.thread[k.current].queue, r)
      /\ k.thread[k.current].state = "running" /\ k.current \in Threads
  BY ReadInPlaceKeeps DEF IInv
<1>2. CASE SameThreads(k, k')
  BY <1>1, <1>2, UnchangedMaps
<1>3. CASE /\ r \in HasApc /\ OnlyQueue(k, k', k.current)
           /\ k'.thread[k.current].queue = Append(k.thread[k.current].queue, r)
  <2>1. k.iosb[r] = "done" /\ \A t \in Threads : r \notin QueueSet(k, t)
    <3>1. Unused(r)
      BY DEF ReadInPlace
    <3>. QED
      BY <3>1, UnusedIs DEF IInv
  <2>2. /\ d # 0 /\ d \in Ids /\ d \in AliveOf(k) /\ OwedOf(k)[d] = k.thread[k.current].queue
        /\ k \in Kernel /\ IdsOk(k) /\ k' \in Kernel /\ IdsOk(k')
    BY <1>1, RunsIs, PromisedAre
  <2>3. /\ OwedOf(k') = [OwedOf(k) EXCEPT ![d] = Append(k.thread[k.current].queue, r)]
        /\ AliveOf(k') = AliveOf(k)
    <3>1. k.current \in Threads
      BY <1>1
    <3>2. /\ OwedOf(k') = [OwedOf(k) EXCEPT ![d] = k'.thread[k.current].queue]
          /\ AliveOf(k') = AliveOf(k)
      BY <1>3, <2>2, <3>1, QueueMaps
    <3>. QED
      BY <1>3, <3>2
  <2>4. AskerOf(k', JobsOf(k', reader')) = AskerOf(k, JobsOf(k, reader))
    BY <1>1, AskerSame
  <2>5. \A n \in Ids : ~ Contains(OwedOf(k)[n], r)
    BY <2>1, <2>2, UnqueuedMaps
  <2>6. k'.iosb = [k.iosb EXCEPT ![r] = "done"]
    BY <1>1, <2>1, <2>2, KernelIs
  <2> HIDE DEF d
  <2>7. PromisedOwed' = [PromisedOwed EXCEPT ![d] = Append(@, r)]
    BY <2>2, <2>3, PromisedAre
  <2>8. Owes(r, d)
    BY <1>3, <2>2, <2>7, PromisedAre DEF Owes
  <2>. QED
    BY <2>1, <2>2, <2>3, <2>4, <2>5, <2>6, <2>8, PromisedAre, InPlaceStep
<1>. QED
  BY <1>1, <1>2, <1>3

(* What an alertable wait or the return of a routine gives.                *)
LEMMA GivenMaps ==
  ASSUME IInv, IInv', k'.iosb = k.iosb, JobsOf(k', reader') = JobsOf(k, reader), Given(k, k'),
         k.thread[k.current].state = "running", k.current \in Threads
  PROVE  PromisedStep
<1> DEFINE d == k.thread[k.current].id
<1>1. CASE SameThreads(k, k')
  BY <1>1, UnchangedMaps
<1>2. CASE /\ OnlyQueue(k, k', k.current) /\ k.thread[k.current].queue # << >>
           /\ k'.thread[k.current].queue = Tail(k.thread[k.current].queue)
  <2>1. /\ d # 0 /\ d \in Ids /\ OwedOf(k)[d] = k.thread[k.current].queue
        /\ k \in Kernel /\ IdsOk(k) /\ k' \in Kernel /\ IdsOk(k')
    BY RunsIs, PromisedAre
  <2>2. /\ OwedOf(k') = [OwedOf(k) EXCEPT ![d] = Tail(k.thread[k.current].queue)]
        /\ AliveOf(k') = AliveOf(k)
    BY <1>2, <2>1, QueueMaps
  <2>3. AskerOf(k', JobsOf(k', reader')) = AskerOf(k, JobsOf(k, reader))
    BY AskerSame
  <2> HIDE DEF d
  <2>4. PromisedOwed' = [PromisedOwed EXCEPT ![d] = Tail(@)] /\ PromisedOwed[d] # << >>
    BY <1>2, <2>1, <2>2, PromisedAre
  <2>. QED
    BY <2>1, <2>2, <2>3, <2>4, PromisedAre, CallStep
<1>. QED
  BY <1>1, <1>2 DEF Given

(* A KAPC is inserted.                                                     *)
LEMMA KeInsertQueueApcMaps ==
  ASSUME IInv, IInv', NEW a \in Kapcs, NEW t \in Threads, KeInsertQueueApc(a, t)
  PROVE  PromisedStep
<1> DEFINE d == k.thread[t].id
<1>1. /\ k'.iosb = k.iosb /\ JobsOf(k', reader') = JobsOf(k, reader) /\ OnlyQueue(k, k', t)
      /\ \/ k'.thread[t].queue = Append(k.thread[t].queue, a)
         \/ k.thread[t].queue = << >> /\ k'.thread[t].queue = << >>
      /\ \A u \in Threads : a \notin QueueSet(k, u)
  BY KeInsertQueueApcKeeps DEF IInv
<1>2. k \in Kernel /\ IdsOk(k) /\ k' \in Kernel /\ IdsOk(k')
  BY PromisedAre
<1>3. d # 0
  <2>1. k.thread[t].state # "free"
    BY DEF KeInsertQueueApc
  <2>. QED
    BY <1>2, <2>1 DEF IdsOk
<1>4. d \in Ids /\ OwedOf(k)[d] = k.thread[t].queue
  BY <1>2, <1>3, OwedIs
<1>5. /\ OwedOf(k') = [OwedOf(k) EXCEPT ![d] = k'.thread[t].queue]
      /\ AliveOf(k') = AliveOf(k)
  BY <1>1, <1>2, <1>3, QueueMaps
<1>6. AskerOf(k', JobsOf(k', reader')) = AskerOf(k, JobsOf(k, reader))
  BY <1>1, AskerSame
<1>7. \A n \in Ids : ~ Contains(OwedOf(k)[n], a)
  BY <1>1, <1>2, UnqueuedMaps
<1> HIDE DEF d
<1>8. \/ PromisedOwed' = [PromisedOwed EXCEPT ![d] = Append(@, a)]
      \/ PromisedOwed[d] = << >> /\ PromisedOwed' = PromisedOwed
  <2>1. CASE k'.thread[t].queue = Append(k.thread[t].queue, a)
    BY <1>4, <1>5, <2>1, PromisedAre
  <2>2. CASE k.thread[t].queue = << >> /\ k'.thread[t].queue = << >>
    <3>1. OwedOf(k') = OwedOf(k)
      BY <1>4, <1>5, <2>2, OwedDomain
    <3>. QED
      BY <1>4, <2>2, <3>1, PromisedAre
  <2>. QED
    BY <1>1, <2>1, <2>2
<1>. QED
  BY <1>1, <1>4, <1>5, <1>6, <1>7, <1>8, PromisedAre, InsertStep

(* A thread ends.                                                          *)
LEMMA PsTerminateMaps ==
  ASSUME IInv, IInv', PsTerminateSystemThread
  PROVE  PromisedStep
<1> DEFINE h == k.current
<1>1. /\ k'.iosb = k.iosb /\ JobsOf(k', reader') = JobsOf(k, reader)
      /\ k.thread[h].state = "running" /\ h \in Threads /\ k'.thread[h].state = "terminated"
      /\ \A u \in Threads : /\ k'.thread[u].id = k.thread[u].id /\ k'.thread[u].queue = k.thread[u].queue
                            /\ u # h => (k'.thread[u].state \in Alive <=> k.thread[u].state \in Alive)
  BY PsTerminateKeeps DEF IInv
<1>2. k \in Kernel /\ IdsOk(k) /\ k' \in Kernel /\ IdsOk(k')
  BY PromisedAre
<1>3. k.thread[h].state \in Alive /\ k'.thread[h].state \notin Alive
  BY <1>1 DEF Alive
<1> HIDE DEF h
<1>4. /\ k.thread[h].id \in Ids \cap AliveOf(k)
      /\ OwedOf(k') = OwedOf(k) /\ AliveOf(k') = AliveOf(k) \ {k.thread[h].id}
  BY <1>1, <1>2, <1>3, EndedMaps
<1>5. AskerOf(k', JobsOf(k', reader')) = AskerOf(k, JobsOf(k, reader))
  BY <1>1, AskerSame
<1>. QED
  BY <1>1, <1>4, <1>5, PromisedAre, EndStep

(* A thread starts.                                                        *)
LEMMA PsCreateMaps ==
  ASSUME IInv, IInv', NEW t \in Threads, PsCreateSystemThread(t)
  PROVE  PromisedStep
<1>1. /\ k'.iosb = k.iosb /\ JobsOf(k', reader') = JobsOf(k, reader)
      /\ Started(k, k', t) /\ k.ids < MaxThreadId
  BY PsCreateKeeps DEF IInv
<1>2. k \in Kernel /\ IdsOk(k) /\ k' \in Kernel /\ IdsOk(k')
  BY PromisedAre
<1>3. /\ k.ids + 1 \in Ids \ AliveOf(k)
      /\ OwedOf(k') = OwedOf(k) /\ AliveOf(k') = AliveOf(k) \cup {k.ids + 1}
  BY <1>1, <1>2, StartedMaps
<1>4. AskerOf(k', JobsOf(k', reader')) = AskerOf(k, JobsOf(k, reader))
  BY <1>1, AskerSame
<1>. QED
  BY <1>1, <1>3, <1>4, PromisedAre, StartStep

(* The slot of a thread that ended is free: what it was owed is forgotten. *)
LEMMA PickMaps ==
  ASSUME IInv, IInv', NEW t \in Threads, Pick(t)
  PROVE  PromisedStep
<1> DEFINE h == k.current
<1>1. /\ k'.iosb = k.iosb /\ JobsOf(k', reader') = JobsOf(k, reader)
      /\ SameThreads(k, k') \/ FreedSlot(k, k', h)
  BY PickKeeps DEF IInv
<1>2. CASE SameThreads(k, k')
  BY <1>1, <1>2, UnchangedMaps
<1>3. CASE FreedSlot(k, k', h)
  <2>1. k \in Kernel /\ IdsOk(k) /\ k' \in Kernel /\ IdsOk(k') /\ h \in Threads
    BY PromisedAre, KernelIs
  <2> HIDE DEF h
  <2>2. /\ k.thread[h].id \in Ids \ AliveOf(k)
        /\ OwedOf(k') = [OwedOf(k) EXCEPT ![k.thread[h].id] = << >>]
        /\ AliveOf(k') = AliveOf(k)
    BY <1>3, <2>1, FreedMaps
  <2>3. AskerOf(k', JobsOf(k', reader')) = AskerOf(k, JobsOf(k, reader))
    BY <1>1, AskerSame
  <2>4. PromisedOwed' = [PromisedOwed EXCEPT ![k.thread[h].id] = << >>]
    BY <2>2, PromisedAre
  <2>. QED
    BY <1>1, <2>2, <2>3, <2>4, PromisedAre, ForgetStep
<1>. QED
  BY <1>1, <1>2, <1>3

(* A completion completes: the thread that asked is called back, if it is  *)
(* there to be.                                                            *)
LEMMA CompleteNextMaps ==
  ASSUME IInv, IInv', CompleteNext
  PROVE  PromisedStep
<1> DEFINE job == Head(k.polled)
           q0 == job.request
           h == job.thread
           J == JobsOf(k', reader')
           K == JobsOf(k, reader)
<1>1. k' = DiscReadDone(Rest(k), job) /\ reader' = reader /\ k.polled # << >>
  BY DEF CompleteNext, Rest
<1>2. ThreadsInv(k) /\ PollOk(k) /\ ReadsInv(k, reader)
  BY DEF IInv, Good
<1>3. /\ k'.iosb[q0] = "done" /\ (\A q \in Requests : q # q0 => k'.iosb[q] = k.iosb[q])
      /\ (\A u \in Threads : k'.thread[u].id = k.thread[u].id)
      /\ (\A u \in Threads :
            IF q0 \in Sync /\ u = h THEN ReadOver(k.thread[u], k'.thread[u], job)
            ELSE LeftAlone(k.thread[u], k'.thread[u]) \/ WaitOver(k.thread[u], k'.thread[u]))
      /\ (\A u \in Threads :
            IF q0 \in HasApc /\ u = h /\ Asker(k, job, Alive)
              THEN CallsBack(k.thread[u], k'.thread[u], job)
            ELSE k'.thread[u].queue = k.thread[u].queue)
  BY <1>1, <1>2, CompleteIs
<1>4. K = J \cup {job} /\ \A j \in J : j.request # q0
  BY <1>1, <1>2, CompleteKeeps
<1>5. k \in Kernel /\ IdsOk(k) /\ k' \in Kernel /\ IdsOk(k')
  BY PromisedAre
<1>6. job \in JobOf /\ q0 \in Requests /\ h \in Threads
  <2>1. reader \in Readers
    BY <1>2 DEF ReadsInv, JobsOk
  <2>. QED
    BY <1>4, <1>5, <2>1, JobsAre
<1>7. k.iosb[q0] = "pending"
  BY <1>2, <1>4, <1>6 DEF ReadsInv, JobsOk
<1>8. \A t \in Threads : k.thread[t].id = job.id => t = h
  BY <1>2, <1>4 DEF ReadsInv, JobThreads
<1>9. \A t \in Threads : k'.thread[t].state \in Alive <=> k.thread[t].state \in Alive
  BY <1>3 DEF ReadOver, LeftAlone, WaitOver, Alive
<1>10. k'.iosb = [k.iosb EXCEPT ![q0] = "done"]
  <2>1. k.iosb \in [Requests -> {"pending", "done"}] /\ k'.iosb \in [Requests -> {"pending", "done"}]
    BY <1>5, KernelIs
  <2>. QED
    BY <1>3, <1>6, <2>1
<1>11. OneJob(K)
  BY JobsUnique DEF IInv
<1>12. CallsBack(k.thread[h], k'.thread[h], job) =>
         \/ k'.thread[h].queue = Append(k.thread[h].queue, q0)
         \/ k.thread[h].queue = << >> /\ k'.thread[h].queue = << >>
  BY DEF CallsBack
<1>13. job.id \in AliveOf(k) <=> Asker(k, job, Alive)
  BY <1>6, <1>8 DEF AliveOf, Asker
<1>14. \A q \in Requests : k'.iosb[q] = "pending" => \E j \in J : j.request = q
  BY DEF IInv, Good, ReadsInv, JobsOk
<1>15. job \in K
  BY <1>4
<1> HIDE DEF J, job, K
<1>16. AskerOf(k', J) = [AskerOf(k, K) EXCEPT ![q0] = "nobody"]
  <2>1. k'.iosb[q0] # "pending" /\ \A q \in Requests : q # q0 => k.iosb[q] = k'.iosb[q]
    BY <1>3
  <2>2. job.request = q0
    OBVIOUS
  <2> HIDE DEF q0
  <2>3. /\ AskerOf(k, K) = [AskerOf(k', J) EXCEPT ![q0] = job.id]
        /\ AskerOf(k', J) = [AskerOf(k, K) EXCEPT ![q0] = "nobody"]
    BY <1>4, <1>6, <1>7, <1>11, <1>14, <2>1, <2>2, AskerMaps
  <2>. QED
    BY <2>3
<1>20. AskerOf(k, K)[q0] = job.id
  BY <1>6, <1>7, <1>11, <1>15, AskerIs
<1>17. PromisedAsker' = [PromisedAsker EXCEPT ![q0] = "nobody"] /\ PromisedAsker[q0] = job.id
  BY <1>16, <1>20, PromisedAre DEF J, K
<1>18. CASE q0 \in HasApc /\ Asker(k, job, Alive)
  <2>1. OnlyQueue(k, k', h)
    BY <1>3, <1>9 DEF OnlyQueue
  <2>2. k.thread[h].id = job.id /\ k.thread[h].id # 0
    BY <1>5, <1>6, <1>18 DEF Asker, Alive, IdsOk
  <2>3. job.id \in Ids /\ OwedOf(k)[job.id] = k.thread[h].queue
    BY <1>5, <1>6, <2>2, OwedIs
  <2>4. OwedOf(k') = [OwedOf(k) EXCEPT ![job.id] = k'.thread[h].queue] /\ AliveOf(k') = AliveOf(k)
    BY <1>5, <1>6, <2>1, <2>2, QueueMaps
  <2>5. \/ k'.thread[h].queue = Append(k.thread[h].queue, q0)
        \/ k.thread[h].queue = << >> /\ k'.thread[h].queue = << >>
    BY <1>3, <1>6, <1>12, <1>18
  <2>6. \/ PromisedOwed' = [PromisedOwed EXCEPT ![job.id] = Append(@, q0)]
        \/ PromisedOwed[job.id] = << >> /\ PromisedOwed' = PromisedOwed
    <3>1. CASE k'.thread[h].queue = Append(k.thread[h].queue, q0)
      BY <2>3, <2>4, <3>1, PromisedAre
    <3>2. CASE k.thread[h].queue = << >> /\ k'.thread[h].queue = << >>
      <4>1. OwedOf(k') = OwedOf(k)
        BY <2>3, <2>4, <3>2, OwedDomain
      <4>. QED
        BY <2>3, <3>2, <4>1, PromisedAre
    <3>. QED
      BY <2>5, <3>1, <3>2
  <2>7. Owes(q0, job.id)
    BY <1>13, <1>18, <2>6, PromisedAre DEF Owes
  <2>. QED
    BY <1>6, <1>7, <1>10, <1>17, <2>4, <2>7, PromisedAre, CompleteStep
<1>19. CASE ~ (q0 \in HasApc /\ Asker(k, job, Alive))
  <2>1. SameThreads(k, k')
    BY <1>3, <1>9, <1>19 DEF SameThreads
  <2>2. OwedOf(k') = OwedOf(k) /\ AliveOf(k') = AliveOf(k)
    BY <2>1, SameMaps
  <2>3. Owes(q0, job.id)
    BY <1>13, <1>19, <2>2, PromisedAre DEF Owes
  <2>. QED
    BY <1>6, <1>7, <1>10, <1>17, <2>2, <2>3, PromisedAre, CompleteStep
<1>. QED
  BY <1>18, <1>19

(* The initial states map to the promise's.                                *)
LEMMA InitMaps == Init => Promise!Init
<1> SUFFICES ASSUME Init PROVE Promise!Init
  OBVIOUS
<1>1. IInv
  BY InitHolds
<1>2. /\ k.iosb = [r \in Requests |-> "done"]
      /\ \A t \in Threads : k.thread[t].queue = << >>
  BY DEF Init, NewThread, Free
<1>3. PromisedAsker = [r \in Requests |-> "nobody"]
  BY <1>2 DEF PromisedAsker
<1>4. PromisedAlive \subseteq Ids
  <2>1. k \in Kernel /\ IdsOk(k)
    BY <1>1 DEF IInv, Good, ThreadsInv
  <2>2. \A t \in Threads : k.thread[t].state \in Alive => k.thread[t].id \in Ids
    <3> TAKE t \in Threads
    <3>1. k.thread[t].state \in Alive => k.thread[t].id # 0
      BY <2>1 DEF IdsOk, Alive
    <3>. QED
      BY <2>1, <3>1, OwedIs
  <2>3. AliveOf(k) \subseteq Ids
    BY <2>2 DEF AliveOf
  <2>. QED
    BY <1>1, <2>3, PromisedIs
<1>5. PromisedOwed = [i \in Ids |-> << >>]
  <2>1. k \in Kernel /\ IdsOk(k)
    BY <1>1 DEF IInv, Good, ThreadsInv
  <2>2. ASSUME NEW i \in Ids PROVE OwedOf(k)[i] = << >>
    <3>1. CASE \E t \in Threads : k.thread[t].id = i
      <4>1. PICK t \in Threads : k.thread[t].id = i
        BY <3>1
      <4>. QED
        BY <1>2, <2>1, <4>1, OwedIs DEF Ids
    <3>2. CASE ~ \E t \in Threads : k.thread[t].id = i
      BY <3>2, OwedNone
    <3>. QED
      BY <3>1, <3>2
  <2>3. OwedOf(k) = [i \in Ids |-> << >>]
    BY <2>2, OwedDomain
  <2>. QED
    BY <1>1, <2>3, PromisedIs
<1>. QED
  BY <1>2, <1>3, <1>4, <1>5 DEF Promise!Init, PromisedAsker, PromisedAlive, PromisedOwed

(* Every step is one of the promise's, or none.                            *)
LEMMA NextMaps ==
  ASSUME IInv, IInv', [Next]_vars
  PROVE  PromisedStep
<1>0. Good(k, reader) /\ work \in BOOLEAN
  BY DEF IInv
<1>1. CASE Call
  <2>1. ASSUME NEW r \in Requests, DiscReadLater(r) PROVE PromisedStep
    BY <2>1, DiscReadLaterMaps
  <2>2. ASSUME NEW r \in Requests, ReadInPlace(r) PROVE PromisedStep
    BY <2>2, ReadInPlaceMaps
  <2>3. ASSUME NEW e \in Events \cup {"sleep"}, AlertableWait(e) PROVE PromisedStep
    BY <1>0, <2>3, AlertableWaitKeeps, GivenMaps
  <2>4. ASSUME NEW a \in Kapcs, NEW t \in Threads, KeInsertQueueApc(a, t) PROVE PromisedStep
    BY <2>4, KeInsertQueueApcMaps
  <2>5. ASSUME NEW cleared \in BOOLEAN, ApcReturn(cleared) PROVE PromisedStep
    BY <1>0, <2>5, ApcReturnKeeps, GivenMaps
  <2>6. ASSUME PsTerminateSystemThread PROVE PromisedStep
    BY <2>6, PsTerminateMaps
  <2>7. ASSUME NEW t \in Threads, PsCreateSystemThread(t) PROVE PromisedStep
    BY <2>7, PsCreateMaps
  <2>. QED
    BY <1>1, <2>1, <2>2, <2>3, <2>4, <2>5, <2>6, <2>7 DEF Call
<1>2. ASSUME Unchanged(k, reader, k', reader') PROVE PromisedStep
  BY <1>2, UnchangedMaps DEF Unchanged
<1>3. CASE Interrupt
  BY <1>0, <1>2, <1>3, InterruptKeeps
<1>4. CASE Poll
  BY <1>0, <1>2, <1>4, PollKeeps
<1>5. CASE CompleteNext
  BY <1>5, CompleteNextMaps
<1>6. CASE BackToGuest
  BY <1>0, <1>2, <1>6, BackToGuestKeeps
<1>7. CASE Schedule
  BY <1>0, <1>2, <1>7, ScheduleKeeps
<1>8. CASE Pass
  BY <1>0, <1>2, <1>8, PassKeeps
<1>9. CASE Idle
  BY <1>0, <1>2, <1>9, IdleKeeps
<1>10. CASE \E t \in Threads : Pick(t)
  BY <1>10, PickMaps
<1>11. CASE Drain
  BY <1>0, <1>2, <1>11, DrainKeeps
<1>12. CASE ReaderRead
  BY <1>0, <1>2, <1>12, ReaderReadKeeps
<1>13. CASE ReaderPost
  BY <1>0, <1>2, <1>13, ReaderPostKeeps
<1>14. CASE UNCHANGED vars
  <2>1. Unchanged(k, reader, k', reader')
    BY <1>14 DEF vars, Unchanged, SameThreads
  <2>. QED
    BY <1>2, <2>1
<1>. QED
  BY <1>1, <1>3, <1>4, <1>5, <1>6, <1>7, <1>8, <1>9, <1>10, <1>11, <1>12, <1>13, <1>14
     DEF Next, Cpu, Reader

(* Overlapped reads keep their promise (OverlappedReads): a read completes *)
(* once, and the thread that asked is called back for it once, in the      *)
(* order in which its APCs were queued, unless it has ended (io.c, apc.c). *)
THEOREM PromiseKept == Spec => KeepsPromise
<1>1. Init => Promise!Init
  BY InitMaps
<1>2. IInv /\ IInv' /\ [Next]_vars => [Promise!Next]_(Promise!promised)
  BY NextMaps DEF PromisedStep
<1>. QED
  BY <1>1, <1>2, Invariant, PTL DEF Spec, KeepsPromise, Promise!Spec
=============================================================================
