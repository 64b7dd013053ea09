-------------------------- MODULE SchedulerProofs --------------------------
(***************************************************************************)
(* Proofs about Scheduler, for any threads, priorities, lines and DPCs:    *)
(* the IRQL of the CPU is always that of the code that runs, and what an   *)
(* ISR took from code at DISPATCH_LEVEL or above goes back to it first.    *)
(***************************************************************************)
EXTENDS Scheduler, TLAPS, FiniteSetTheorems, SequenceTheorems, NaturalsInduction,
        WellFoundedInduction

(* What the kernel's record holds.                                         *)
Irqls == {PASSIVE_LEVEL} \cup 2 .. 31
Statuses == {"running", "ready", "waiting", "suspended"}
Records ==
  [status : [Contexts -> Statuses], current : Contexts, idle : BOOLEAN, irql : Irqls,
   interruptFlag : [Contexts -> BOOLEAN], turn : Seq(Threads), sliceExpired : BOOLEAN,
   resched : BOOLEAN, forceSwitch : BOOLEAN, inIsr : BOOLEAN, isrLine : 0 .. 15,
   isrSavedIrql : Irqls, isrInterrupted : Contexts \cup {NoThread},
   resumeFirst : Contexts \cup {NoThread}, dpcs : Seq(Dpcs), inDpc : BOOLEAN,
   dpcSavedIrql : Irqls, level : [Contexts -> Irqls]]

(* Code below the ISRs that is at DISPATCH_LEVEL or above.                 *)
High(s, c) == c # IsrThread /\ s.status[c] # "suspended" /\ s.level[c] # PASSIVE_LEVEL
Highest(s) == {c \in Contexts : High(s, c)}

(* The IRQL of what is below the ISRs.                                     *)
Base(s) == IF s.inIsr THEN s.isrSavedIrql ELSE s.irql

(* What holds of the record all through an entry: a thread that waits is   *)
(* at PASSIVE_LEVEL, at most one context below the ISRs is above it, the   *)
(* IRQL below the ISRs is its, and while an ISR runs it is the one the ISR *)
(* interrupted or the one to go on first.                                  *)
ThreadsOk(s) ==
  \A t \in Threads : s.status[t] # "suspended" /\ (s.status[t] = "waiting" => s.level[t] = PASSIVE_LEVEL)
KernelThreadsOk(s) ==
  /\ s.status[DpcThread] # "waiting" /\ s.status[IsrThread] # "waiting"
  /\ s.inIsr <=> s.status[IsrThread] # "suspended"
  /\ s.inDpc <=> s.status[DpcThread] # "suspended"
  /\ s.inDpc => s.level[DpcThread] # PASSIVE_LEVEL /\ s.dpcSavedIrql = PASSIVE_LEVEL
OneHigh(s) ==
  /\ \A c \in Highest(s) : s.level[c] = Base(s)
  /\ Base(s) # PASSIVE_LEVEL => Highest(s) # {}
  /\ \A c, d \in Highest(s) : c = d
IsrLevel(s) == s.inIsr => s.irql = s.level[IsrThread] /\ s.irql # PASSIVE_LEVEL
HeldFor(s) ==
  /\ s.resumeFirst # NoThread => s.resumeFirst \in Highest(s) /\ s.status[s.resumeFirst] = "ready"
  /\ s.resumeFirst # NoThread => s.current = IsrThread /\ (s.inIsr => s.isrInterrupted = NoThread)
  /\ s.inIsr => \A c \in Highest(s) : c \in {s.isrInterrupted, s.resumeFirst}
RunsAlone(s) == \A c \in Contexts : s.status[c] = "running" => c = s.current
Core(s) ==
  /\ s \in Records /\ ThreadsOk(s) /\ KernelThreadsOk(s) /\ OneHigh(s) /\ IsrLevel(s) /\ HeldFor(s)
  /\ RunsAlone(s)

RightOneRuns(s) ==
  /\ s.status[s.current] = "running"
  /\ IF s.inIsr THEN s.current = IsrThread ELSE \A c \in Highest(s) : c = s.current

(* The DPCs in the queue are those that a lowering overlooked.             *)
Left(s) == \A d \in Dpcs : Contains(s.dpcs, d) => d \in overlooked

(* Between the entries, in one from the guest, at its end, and in a pass.  *)
Between(s) ==
  /\ Core(s)
  /\ IF s.idle THEN ~s.inIsr /\ Highest(s) = {} /\ (\A c \in Contexts : s.status[c] \notin {"ready", "running"})
     ELSE RightOneRuns(s)
  /\ s.irql = PASSIVE_LEVEL => Left(s)
  /\ s.forceSwitch => s.inIsr
Entered(s) ==
  /\ Core(s) /\ ~s.idle /\ RightOneRuns(s)
  /\ s.irql = PASSIVE_LEVEL /\ ~Left(s) => s.resched
  /\ s.forceSwitch => s.inIsr
AtEnd(s) ==
  /\ Core(s) /\ ~s.idle
  /\ IF s.status[s.current] = "running" THEN RightOneRuns(s) /\ (s.forceSwitch => s.inIsr)
     ELSE ~s.inIsr /\ s.resched /\ \A c \in Highest(s) : c = s.resumeFirst
  /\ s.irql = PASSIVE_LEVEL /\ ~Left(s) => s.resched
InPass(s) ==
  /\ Core(s)
  /\ \A c \in Contexts : s.status[c] # "running"
  /\ ~s.inIsr => \A c \in Highest(s) : c = s.resumeFirst
  /\ s.forceSwitch => s.inIsr
ToChoose(s) ==
  /\ Core(s)
  /\ \A c \in Contexts : s.status[c] # "running"
  /\ ~s.inIsr => \A c \in Highest(s) : c \in {s.resumeFirst, DpcThread}
  /\ s.irql = PASSIVE_LEVEL => s.dpcs = << >>
  /\ s.forceSwitch => s.inIsr

(* What is held keeps its level, and is not gone.                          *)
Keeps(s, r) ==
  \A c \in Contexts \ {IsrThread} :
    s.status[c] # "suspended" => r.status[c] # "suspended" /\ r.level[c] = s.level[c]

-----------------------------------------------------------------------------
(***************************************************************************)
(* Slots.                                                                  *)
(***************************************************************************)
LEMMA LeastOf ==
  ASSUME NEW K \in SUBSET Nat, K # {}
  PROVE  \E n \in K : \A m \in K : n <= m
<1>1. \E n \in K : \A m \in K : ~ (<< m, n >> \in OpToRel(<, Nat))
  BY NatLessThanWellFounded, WFMin
<1>2. PICK n \in K : \A m \in K : ~ (<< m, n >> \in OpToRel(<, Nat))
  BY <1>1
<1>3. \A m \in K : ~ (m < n)
  BY <1>2 DEF OpToRel
<1>4. \A m \in K : n <= m
  <2>1. n \in Nat /\ \A m \in K : m \in Nat
    OBVIOUS
  <2>. QED
    BY <1>3, <2>1
<1>. QED
  BY <1>4

LEMMA FirstSlotIs ==
  ASSUME NEW S \in SUBSET Nat, S # {}
  PROVE  FirstSlot(S) \in S
BY LeastOf DEF FirstSlot

LEMMA GreatestOf ==
  ASSUME NEW K \in SUBSET Nat, K # {}, NEW b \in Nat, \A n \in K : n <= b
  PROVE  \E n \in K : \A m \in K : m <= n
<1> DEFINE J == {b - n : n \in K}
<1>1. \A n \in K : b - n \in Nat
  OBVIOUS
<1>2. J \in SUBSET Nat /\ J # {}
  BY <1>1
<1>3. PICK j \in J : \A m \in J : j <= m
  <2> HIDE DEF J
  <2>. QED
    BY <1>2, LeastOf
<1>4. PICK n \in K : j = b - n
  OBVIOUS
<1>5. \A m \in K : b - n <= b - m
  BY <1>3, <1>4
<1>6. \A m \in K : m <= n
  <2> TAKE m \in K
  <2>1. m \in Nat /\ n \in Nat /\ b - n <= b - m
    BY <1>5
  <2>. QED
    BY <2>1
<1>. QED
  BY <1>6

LEMMA ContextsAre ==
  /\ DpcThread \in Contexts /\ IsrThread \in Contexts /\ Threads \subseteq Contexts
  /\ DpcThread # IsrThread /\ NoThread \notin Contexts
  /\ \A t \in Threads : t # DpcThread /\ t # IsrThread
  /\ \A c \in Contexts : c \in Threads \/ c = DpcThread \/ c = IsrThread
BY SchedulerAssumption, ThreadsAssumption DEF Contexts

-----------------------------------------------------------------------------
(***************************************************************************)
(* The walk of a set of slots is a sequence of just its members.           *)
(***************************************************************************)
Sorted(q) == \A i, j \in DOMAIN q : i < j => q[i] < q[j]

LEMMA WalkExists ==
  ASSUME NEW T \in SUBSET Nat, IsFiniteSet(T)
  PROVE  \E q \in [1 .. Cardinality(T) -> T] : Sorted(q)
<1> DEFINE Walkable(S) == \E q \in [1 .. Cardinality(S) -> S] : Sorted(q)
           K == {n \in Nat : \E S \in SUBSET T : Cardinality(S) = n /\ ~Walkable(S)}
<1>1. ASSUME K # {} PROVE FALSE
  <2>1. PICK n \in K : \A m \in K : n <= m
    <3>1. K \in SUBSET Nat
      OBVIOUS
    <3> HIDE DEF K
    <3>. QED
      BY <1>1, <3>1, LeastOf
  <2>2. PICK S \in SUBSET T : Cardinality(S) = n /\ ~Walkable(S)
    OBVIOUS
  <2>3. IsFiniteSet(S) /\ S \in SUBSET Nat /\ n \in Nat
    BY FS_Subset
  <2>4. S # {}
    <3> SUFFICES ASSUME S = {} PROVE FALSE
      OBVIOUS
    <3>1. Cardinality(S) = 0
      BY FS_EmptySet
    <3> DEFINE q == [i \in 1 .. 0 |-> 0]
    <3>2. q \in [1 .. Cardinality(S) -> S] /\ Sorted(q)
      BY <3>1 DEF Sorted
    <3>. QED
      BY <2>2, <3>2
  <2>5. n >= 1
    <3>1. n # 0
      BY <2>2, <2>3, <2>4, FS_EmptySet
    <3>. QED
      BY <2>3, <3>1
  <2>6. PICK first \in S : \A m \in S : first <= m
    BY <2>3, <2>4, LeastOf
  <2> DEFINE R == S \ {first}
  <2>7. IsFiniteSet(R) /\ Cardinality(R) = n - 1 /\ n - 1 \in Nat
    BY <2>2, <2>3, <2>5, <2>6, FS_RemoveElement
  <2>8. Walkable(R)
    <3>1. R \in SUBSET T
      OBVIOUS
    <3>2. ~(n <= n - 1)
      BY <2>3
    <3>. QED
      BY <2>1, <2>7, <3>1, <3>2
  <2>9. PICK p \in [1 .. n - 1 -> R] : Sorted(p)
    BY <2>7, <2>8
  <2> DEFINE q == [i \in 1 .. n |-> IF i = 1 THEN first ELSE p[i - 1]]
  <2>10. q \in [1 .. n -> S]
    <3>1. \A i \in 1 .. n : i # 1 => i - 1 \in 1 .. n - 1
      BY <2>3
    <3>. QED
      BY <2>6, <2>9, <3>1
  <2>11. ASSUME NEW i \in 1 .. n, NEW j \in 1 .. n, i < j
         PROVE  q[i] < q[j]
    <3>1. j - 1 \in 1 .. n - 1 /\ j # 1
      BY <2>3, <2>11
    <3>2. q[j] = p[j - 1] /\ p[j - 1] \in R
      BY <2>9, <3>1
    <3>3. CASE i = 1
      <4>1. p[j - 1] \in Nat /\ first \in Nat /\ first <= p[j - 1] /\ p[j - 1] # first
        BY <2>3, <2>6, <3>2
      <4>2. q[i] = first
        BY <3>3
      <4>. QED
        BY <3>2, <4>1, <4>2
    <3>4. CASE i # 1
      <4>1. i - 1 \in 1 .. n - 1 /\ i - 1 < j - 1
        BY <2>3, <2>11, <3>4
      <4>2. q[i] = p[i - 1]
        BY <3>4
      <4>. QED
        BY <2>9, <3>1, <3>2, <4>1, <4>2 DEF Sorted
    <3>. QED
      BY <3>3, <3>4
  <2>12. Sorted(q)
    BY <2>11 DEF Sorted
  <2>. QED
    BY <2>2, <2>10, <2>12
<1>2. Cardinality(T) \in Nat
  BY FS_CardinalityType
<1>. QED
  BY <1>1, <1>2

LEMMA WalkIs ==
  ASSUME NEW T \in SUBSET Threads
  PROVE  Walk(T) \in Seq(Threads) /\ \A t \in T : Contains(Walk(T), t)
<1>1. T \in SUBSET Nat /\ IsFiniteSet(T) /\ Cardinality(T) \in Nat
  BY ThreadsAssumption, FS_Subset, FS_CardinalityType
<1> DEFINE n == Cardinality(T)
<1>2. Walk(T) \in [1 .. n -> T] /\ Sorted(Walk(T))
  <2>1. \E q \in [1 .. n -> T] : Sorted(q)
    BY <1>1, WalkExists
  <2>. QED
    BY <2>1 DEF Walk, Sorted
<1>3. PICK q : q = Walk(T)
  OBVIOUS
<1> HIDE DEF n
<1>4. n \in Nat /\ IsFiniteSet(T) /\ Cardinality(T) = n
  BY <1>1 DEF n
<1>5. q \in Seq(T) /\ Len(q) = n /\ DOMAIN q = 1 .. n
  BY <1>2, <1>3, <1>4
<1>6. \A i, j \in 1 .. n : q[i] = q[j] => i = j
  <2>1. \A i \in 1 .. n : q[i] \in Nat
    BY <1>1, <1>2, <1>3
  <2>. QED
    BY <1>2, <1>3, <1>5, <2>1 DEF Sorted
<1>7. \A t \in T : \E i \in 1 .. n : q[i] = t
  <2>1. IsFiniteSet(1 .. n) /\ Cardinality(1 .. n) = n
    BY <1>4, FS_Interval
  <2>2. q \in Injection(1 .. n, T)
    BY <1>2, <1>3, <1>6 DEF Injection, IsInjective
  <2>. QED
    BY <1>4, <2>1, <2>2, FS_Injection DEF Surjection
<1>. QED
  BY <1>3, <1>5, <1>7 DEF Contains

LEMMA WithoutIs ==
  ASSUME NEW S, NEW q \in Seq(S), NEW e
  PROVE  Without(q, e) \in Seq(S) /\ (\A d : Contains(Without(q, e), d) => Contains(q, d))
<1>1. CASE ~Contains(q, e)
  BY <1>1 DEF Without
<1>2. CASE Contains(q, e)
  <2>1. PICK i : i = CHOOSE j \in DOMAIN q : q[j] = e
    OBVIOUS
  <2>2. i \in 1 .. Len(q) /\ Len(q) \in Nat
    <3>1. DOMAIN q = 1 .. Len(q) /\ Len(q) \in Nat
      OBVIOUS
    <3>2. \E j \in DOMAIN q : q[j] = e
      BY <1>2, <3>1 DEF Contains
    <3>. QED
      BY <2>1, <3>1, <3>2
  <2>3. Without(q, e) = SubSeq(q, 1, i - 1) \o SubSeq(q, i + 1, Len(q))
    BY <1>2, <2>1 DEF Without, RemoveAt
  <2>4. SubSeq(q, 1, i - 1) \in Seq(S) /\ SubSeq(q, i + 1, Len(q)) \in Seq(S)
    <3>1. \A j \in 1 .. i - 1 : q[j] \in S
      BY <2>2
    <3>2. \A j \in i + 1 .. Len(q) : q[j] \in S
      BY <2>2
    <3>. QED
      BY <2>2, <3>1, <3>2, SubSeqProperties
  <2>5. Without(q, e) \in Seq(S)
    BY <2>3, <2>4, ConcatProperties
  <2>6. PICK a \in Seq(S), b \in Seq(S) :
          /\ a = SubSeq(q, 1, i - 1) /\ b = SubSeq(q, i + 1, Len(q))
          /\ Without(q, e) = a \o b
    BY <2>3, <2>4
  <2>7. (\A d : Contains(a, d) => Contains(q, d)) /\ (\A d : Contains(b, d) => Contains(q, d))
    <3>1. Len(a) = i - 1 /\ \A j \in 1 .. i - 1 : a[j] = q[j]
      BY <2>2, <2>6
    <3>2. Len(b) = Len(q) - i /\ \A j \in 1 .. Len(q) - i : b[j] = q[j + i]
      BY <2>2, <2>6
    <3>3. ASSUME NEW d, Contains(a, d) PROVE Contains(q, d)
      <4>1. PICK j \in 1 .. Len(a) : a[j] = d
        BY <3>3 DEF Contains
      <4>2. j \in 1 .. Len(q) /\ q[j] = d
        BY <2>2, <3>1, <4>1
      <4>. QED
        BY <4>2 DEF Contains
    <3>4. ASSUME NEW d, Contains(b, d) PROVE Contains(q, d)
      <4>1. PICK j \in 1 .. Len(b) : b[j] = d
        BY <3>4 DEF Contains
      <4>2. j + i \in 1 .. Len(q) /\ q[j + i] = d
        BY <2>2, <3>2, <4>1
      <4>. QED
        BY <4>2 DEF Contains
    <3>. QED
      BY <3>3, <3>4
  <2>8. \A d : Contains(a \o b, d) => Contains(a, d) \/ Contains(b, d)
    <3> SUFFICES ASSUME NEW d, Contains(a \o b, d) PROVE Contains(a, d) \/ Contains(b, d)
      OBVIOUS
    <3>1. Len(a \o b) = Len(a) + Len(b) /\ Len(a) \in Nat /\ Len(b) \in Nat
      BY <2>6, ConcatProperties
    <3>2. PICK j \in 1 .. Len(a \o b) : (a \o b)[j] = d
      BY DEF Contains
    <3>3. CASE j <= Len(a)
      <4>1. j \in 1 .. Len(a) /\ a[j] = d
        BY <2>6, <3>1, <3>2, <3>3, ConcatProperties
      <4>. QED
        BY <4>1 DEF Contains
    <3>4. CASE j > Len(a)
      <4>0. \A n \in 1 .. Len(a) + Len(b) :
              (a \o b)[n] = IF n <= Len(a) THEN a[n] ELSE b[n - Len(a)]
        BY <2>6, ConcatProperties, Zenon
      <4>1. (a \o b)[j] = b[j - Len(a)]
        <5>1. j \in 1 .. Len(a) + Len(b)
          BY <3>1, <3>2
        <5>2. ~(j <= Len(a))
          BY <3>1, <3>2, <3>4
        <5>. QED
          BY <4>0, <5>1, <5>2, Zenon
      <4>2. PICK m \in Int : m = j - Len(a)
        BY <3>1, <3>2
      <4>3. m \in 1 .. Len(b) /\ b[m] = d
        BY <3>1, <3>2, <3>4, <4>1, <4>2
      <4>. QED
        BY <4>3 DEF Contains
    <3>. QED
      BY <3>1, <3>2, <3>3, <3>4
  <2>. QED
    BY <2>5, <2>6, <2>7, <2>8
<1>. QED
  BY <1>1, <1>2

LEMMA ContainsConcat ==
  ASSUME NEW S, NEW p \in Seq(S), NEW q \in Seq(S), NEW e, Contains(p, e) \/ Contains(q, e)
  PROVE  Contains(p \o q, e)
<1>1. Len(p \o q) = Len(p) + Len(q) /\ Len(p) \in Nat /\ Len(q) \in Nat
  BY ConcatProperties
<1>2. CASE Contains(p, e)
  <2>1. PICK i \in 1 .. Len(p) : p[i] = e
    BY <1>2 DEF Contains
  <2>2. i \in 1 .. Len(p \o q) /\ (p \o q)[i] = e
    BY <1>1, <2>1, ConcatProperties
  <2>. QED
    BY <2>2 DEF Contains
<1>3. CASE Contains(q, e)
  <2>1. PICK i \in 1 .. Len(q) : q[i] = e
    BY <1>3 DEF Contains
  <2>2. Len(p) + i \in 1 .. Len(p \o q) /\ (p \o q)[Len(p) + i] = e
    BY <1>1, <2>1, ConcatProperties
  <2>. QED
    BY <2>2 DEF Contains
<1>. QED
  BY <1>2, <1>3

(* Every thread that is ready has a turn once those newly ready have       *)
(* theirs.                                                                 *)
LEMMA NewlyReadyIs ==
  ASSUME NEW s \in Records
  PROVE  /\ NewlyReady(s) \in Seq(Threads)
         /\ \A t \in Threads \cap In(s, "ready") : ~Contains(s.turn, t) => Contains(NewlyReady(s), t)
<1> DEFINE new == {t \in Threads \cap In(s, "ready") : ~Contains(s.turn, t)}
           ahead == IF s.current \in Threads THEN {t \in new : t > s.current} ELSE {}
<1>1. ahead \in SUBSET Threads /\ new \ ahead \in SUBSET Threads
  OBVIOUS
<1>2. NewlyReady(s) = Walk(ahead) \o Walk(new \ ahead)
  BY DEF NewlyReady
<1>3. \A t \in new : t \in ahead \/ t \in new \ ahead
  OBVIOUS
<1>4. Walk(ahead) \in Seq(Threads) /\ Walk(new \ ahead) \in Seq(Threads)
  BY <1>1, WalkIs
<1>5. \A t \in new : Contains(Walk(ahead), t) \/ Contains(Walk(new \ ahead), t)
  BY <1>1, <1>3, WalkIs
<1> HIDE DEF ahead
<1>6. \A t \in new : Contains(Walk(ahead) \o Walk(new \ ahead), t)
  BY <1>4, <1>5, ContainsConcat
<1>7. NewlyReady(s) \in Seq(Threads)
  BY <1>2, <1>4, ConcatProperties
<1>. QED
  BY <1>2, <1>6, <1>7

-----------------------------------------------------------------------------
(***************************************************************************)
(* The one that is chosen.                                                 *)
(***************************************************************************)
Best(s, c) == c \in In(s, "ready") /\ \A e \in In(s, "ready") \ {c} : Precedes(s, c, e)

LEMMA PrioritiesAre ==
  ASSUME priority \in Priorities
  PROVE  /\ \A t \in Threads : PriorityOf(t) \in 0 .. 31
         /\ PriorityOf(DpcThread) = 1000 /\ PriorityOf(IsrThread) = 2000
<1>1. \A t \in Threads : priority[t] \in 0 .. 31
  BY SchedulerAssumption
<1>. QED
  BY <1>1, ContextsAre DEF PriorityOf

LEMMA IsrIsBest ==
  ASSUME priority \in Priorities, NEW s \in Records, IsrThread \in In(s, "ready"),
         NEW c, Best(s, c)
  PROVE  c = IsrThread
<1> SUFFICES ASSUME c # IsrThread PROVE FALSE
  OBVIOUS
<1>1. Precedes(s, c, IsrThread) /\ c \in Contexts
  BY DEF Best, In
<1>2. PriorityOf(c) \in 0 .. 1000 /\ PriorityOf(IsrThread) = 2000
  BY <1>1, PrioritiesAre, ContextsAre
<1>. QED
  BY <1>1, <1>2 DEF Precedes

LEMMA DpcIsBest ==
  ASSUME priority \in Priorities, NEW s \in Records, DpcThread \in In(s, "ready"),
         IsrThread \notin In(s, "ready"), NEW c, Best(s, c)
  PROVE  c = DpcThread
<1> SUFFICES ASSUME c # DpcThread PROVE FALSE
  OBVIOUS
<1>1. Precedes(s, c, DpcThread) /\ c \in Contexts /\ c # IsrThread
  BY DEF Best, In
<1>2. PriorityOf(c) \in 0 .. 31 /\ PriorityOf(DpcThread) = 1000
  BY <1>1, PrioritiesAre, ContextsAre
<1>. QED
  BY <1>1, <1>2 DEF Precedes

LEMMA TurnIs ==
  ASSUME NEW s \in Records, NEW t \in Threads, Contains(s.turn, t)
  PROVE  Turn(s, t) \in Nat /\ s.turn[Turn(s, t)] = t
<1>1. s.turn \in Seq(Threads)
  BY DEF Records
<1>2. DOMAIN s.turn = 1 .. Len(s.turn) /\ Len(s.turn) \in Nat
  BY <1>1
<1>3. \E i \in DOMAIN s.turn : s.turn[i] = t
  BY <1>2 DEF Contains
<1>4. Turn(s, t) \in DOMAIN s.turn /\ s.turn[Turn(s, t)] = t
  BY <1>3 DEF Turn
<1>. QED
  BY <1>2, <1>4

(* Somebody precedes all the others that are ready.                        *)
LEMMA BestExists ==
  ASSUME priority \in Priorities, NEW s \in Records, In(s, "ready") # {},
         \A t \in Threads \cap In(s, "ready") : Contains(s.turn, t)
  PROVE  \E c : Best(s, c)
<1> DEFINE R == In(s, "ready")
<1>1. R \subseteq Contexts
  BY DEF In
<1>2. \A t \in Threads : PriorityOf(t) \in 0 .. 31
  BY PrioritiesAre
<1>3. PriorityOf(DpcThread) = 1000 /\ PriorityOf(IsrThread) = 2000
  BY PrioritiesAre
<1>4. CASE IsrThread \in R
  <2>1. \A e \in R \ {IsrThread} : PriorityOf(e) < 2000
    <3> TAKE e \in R \ {IsrThread}
    <3>1. e \in Threads \/ e = DpcThread
      BY <1>1, ContextsAre
    <3>. QED
      BY <1>2, <1>3, <3>1
  <2>2. \A e \in R \ {IsrThread} : Precedes(s, IsrThread, e)
    <3> TAKE e \in R \ {IsrThread}
    <3>1. PriorityOf(e) \in Int
      BY <1>1, <1>2, <1>3, ContextsAre
    <3>. QED
      BY <1>3, <2>1, <3>1 DEF Precedes
  <2>. QED
    BY <1>4, <2>2 DEF Best
<1>5. CASE IsrThread \notin R /\ DpcThread \in R
  <2>1. \A e \in R \ {DpcThread} : Precedes(s, DpcThread, e)
    <3> TAKE e \in R \ {DpcThread}
    <3>1. e \in Threads
      BY <1>1, <1>5, ContextsAre
    <3>. QED
      BY <1>2, <1>3, <3>1 DEF Precedes
  <2>. QED
    BY <1>5, <2>1 DEF Best
<1>6. CASE R \subseteq Threads
  <2>1. \A t \in R : Turn(s, t) \in Nat /\ s.turn[Turn(s, t)] = t
    BY <1>6, TurnIs
  <2> DEFINE P == {PriorityOf(t) : t \in R}
  <2>2. P \in SUBSET Nat /\ P # {} /\ \A n \in P : n <= 31
    BY <1>2, <1>6
  <2>3. PICK top \in P : \A n \in P : n <= top
    <3> HIDE DEF P
    <3>. QED
      BY <2>2, GreatestOf
  <2> DEFINE N == {Turn(s, t) : t \in {u \in R : PriorityOf(u) = top}}
  <2>4. N \in SUBSET Nat /\ N # {}
    BY <2>1, <2>3
  <2>5. PICK first \in N : \A n \in N : first <= n
    <3> HIDE DEF N
    <3>. QED
      BY <2>4, LeastOf
  <2>6. PICK c \in R : PriorityOf(c) = top /\ Turn(s, c) = first
    BY <2>5
  <2>7. ASSUME NEW e \in R \ {c}
        PROVE  Precedes(s, c, e)
    <3>1. PriorityOf(e) \in Nat /\ PriorityOf(c) \in Nat /\ PriorityOf(e) <= PriorityOf(c)
      BY <1>2, <1>6, <2>3, <2>6
    <3>2. CASE PriorityOf(e) = PriorityOf(c)
      <4>1. Turn(s, e) \in N
        BY <2>6, <3>2
      <4>2. first <= Turn(s, e)
        BY <2>5, <4>1
      <4>3. Turn(s, c) \in Nat /\ Turn(s, e) \in Nat /\ Turn(s, c) # Turn(s, e)
        BY <2>1, <2>7
      <4>. QED
        BY <2>6, <3>2, <4>2, <4>3 DEF Precedes
    <3>3. CASE PriorityOf(e) # PriorityOf(c)
      BY <3>1, <3>3 DEF Precedes
    <3>. QED
      BY <3>2, <3>3
  <2>. QED
    BY <2>7 DEF Best
<1>. QED
  BY <1>1, <1>4, <1>5, <1>6, ContextsAre

-----------------------------------------------------------------------------
(***************************************************************************)
(* The functions of the kernel.                                            *)
(***************************************************************************)
LEMMA EmptyLeft ==
  ASSUME NEW s, s.dpcs = << >>
  PROVE  Left(s)
BY DEF Left, Contains

LEMMA LevelsAre ==
  /\ PASSIVE_LEVEL = 0 /\ DISPATCH_LEVEL = 2 /\ HIGH_LEVEL = 31
  /\ PASSIVE_LEVEL \in Irqls /\ DISPATCH_LEVEL \in Irqls /\ HIGH_LEVEL \in Irqls
  /\ \A n \in Irqls : n \in Int /\ (n # PASSIVE_LEVEL => n >= 2) /\ 0 <= n
BY DEF PASSIVE_LEVEL, DISPATCH_LEVEL, HIGH_LEVEL, Irqls

(* An ISR is dispatched, on s, and makes r of it.                          *)
Dispatched(s, r) ==
  /\ ~s.inIsr
  /\ r \in Records
  /\ r.status = [s.status EXCEPT ![IsrThread] = "ready"]
  /\ r.level = [s.level EXCEPT ![IsrThread] = r.irql]
  /\ r.irql # PASSIVE_LEVEL /\ r.inIsr /\ r.forceSwitch /\ r.resched
  /\ r.isrSavedIrql = s.irql
  /\ r.isrInterrupted = (IF s.current = IsrThread THEN NoThread ELSE s.current)
  /\ r.current = s.current /\ r.idle = s.idle /\ r.resumeFirst = s.resumeFirst
  /\ r.dpcs = s.dpcs /\ r.inDpc = s.inDpc /\ r.dpcSavedIrql = s.dpcSavedIrql /\ r.turn = s.turn

LEMMA IntrDispatchIs ==
  ASSUME NEW s \in Records, NEW on, lines \subseteq Lines
  PROVE  IntrDispatch(s, on) = s \/ Dispatched(s, IntrDispatch(s, on))
<1> DEFINE deliverable == {l \in lines : LineIrql(l) > s.irql}
<1>1. CASE deliverable = {} \/ s.inIsr \/ ~on
  BY <1>1 DEF IntrDispatch
<1>2. CASE ~(deliverable = {} \/ s.inIsr \/ ~on)
  <2>1. FirstSlot(deliverable) \in deliverable
    <3>1. deliverable \in SUBSET Nat
      <4>1. deliverable \subseteq 0 .. 15
        BY SchedulerAssumption
      <4>. QED
        BY <4>1
    <3>. QED
      BY <1>2, <3>1, FirstSlotIs
  <2>2. PICK l : l = FirstSlot(deliverable)
    OBVIOUS
  <2>3. l \in 0 .. 15
    BY <2>1, <2>2, SchedulerAssumption
  <2>4. PICK n : n = LineIrql(l)
    OBVIOUS
  <2>5. n \in Irqls /\ n # PASSIVE_LEVEL
    BY <2>3, <2>4, LevelsAre DEF LineIrql, Irqls
  <2>6. PICK who \in Contexts \cup {NoThread} :
          who = IF s.current = IsrThread THEN NoThread ELSE s.current
    BY DEF Records
  <2>7. PICK status \in [Contexts -> Statuses] : status = [s.status EXCEPT ![IsrThread] = "ready"]
    BY DEF Records, Statuses
  <2>8. PICK level \in [Contexts -> Irqls] : level = [s.level EXCEPT ![IsrThread] = n]
    BY <2>5 DEF Records
  <2>9. PICK flag \in [Contexts -> BOOLEAN] : flag = [s.interruptFlag EXCEPT ![IsrThread] = TRUE]
    BY DEF Records
  <2>10. IntrDispatch(s, on) =
           [s EXCEPT !.status = status, !.interruptFlag = flag, !.inIsr = TRUE, !.isrLine = l,
                     !.isrSavedIrql = s.irql, !.isrInterrupted = who, !.irql = n, !.level = level,
                     !.forceSwitch = TRUE, !.resched = TRUE]
    BY <1>2, <2>2, <2>4, <2>6, <2>7, <2>8, <2>9 DEF IntrDispatch
  <2>11. PICK r : r = IntrDispatch(s, on)
    OBVIOUS
  <2>12. r \in Records
    <3>1. PICK q : q = [s EXCEPT !.status = status, !.interruptFlag = flag, !.inIsr = TRUE,
                                 !.isrLine = l, !.isrSavedIrql = s.irql]
      OBVIOUS
    <3>2. s.irql \in Irqls
      BY DEF Records
    <3>3. q \in Records
      BY <2>3, <2>7, <2>9, <3>1, <3>2 DEF Records
    <3>4. r = [q EXCEPT !.isrInterrupted = who, !.irql = n, !.level = level,
                        !.forceSwitch = TRUE, !.resched = TRUE]
      BY <2>10, <2>11, <3>1 DEF Records
    <3>. QED
      BY <2>5, <2>6, <2>8, <3>3, <3>4 DEF Records
  <2>13. /\ r.status = status /\ r.level = level /\ r.irql = n /\ r.inIsr /\ r.forceSwitch /\ r.resched
         /\ r.isrSavedIrql = s.irql /\ r.isrInterrupted = who
         /\ r.current = s.current /\ r.idle = s.idle /\ r.resumeFirst = s.resumeFirst
         /\ r.dpcs = s.dpcs /\ r.inDpc = s.inDpc /\ r.dpcSavedIrql = s.dpcSavedIrql
         /\ r.turn = s.turn
    BY <2>10, <2>11 DEF Records
  <2>. QED
    BY <1>2, <2>5, <2>6, <2>7, <2>8, <2>11, <2>12, <2>13 DEF Dispatched
<1>. QED
  BY <1>1, <1>2

LEMMA DispatchedCore ==
  ASSUME NEW s, NEW r, Core(s), Dispatched(s, r),
         \A c \in Highest(s) : c \in {s.current, s.resumeFirst}
  PROVE  Core(r) /\ Keeps(s, r) /\ Highest(r) = Highest(s)
<1>1. s \in Records /\ r \in Records
  BY DEF Core, Dispatched
<1>2. /\ \A c \in Contexts : r.status[c] = IF c = IsrThread THEN "ready" ELSE s.status[c]
      /\ \A c \in Contexts : r.level[c] = IF c = IsrThread THEN r.irql ELSE s.level[c]
  BY <1>1 DEF Dispatched, Records
<1>3. Highest(r) = Highest(s)
  BY <1>2 DEF Highest, High
<1>4. Keeps(s, r)
  BY <1>2 DEF Keeps
<1>5. ThreadsOk(r) /\ RunsAlone(r)
  BY <1>2, ContextsAre DEF Core, ThreadsOk, RunsAlone, Dispatched
<1>6. KernelThreadsOk(r)
  BY <1>2, ContextsAre DEF Core, KernelThreadsOk, Dispatched
<1>7. Base(r) = Base(s) /\ \A c \in Highest(r) : r.level[c] = s.level[c]
  BY <1>2, <1>3 DEF Base, Dispatched, Highest, High
<1>8. OneHigh(r)
  BY <1>3, <1>7 DEF Core, OneHigh
<1>9. IsrLevel(r)
  BY <1>2, ContextsAre DEF IsrLevel, Dispatched
<1>10. HeldFor(r)
  <2>1. IsrThread \notin Highest(s)
    BY DEF Highest, High
  <2>2. \A c \in Highest(r) : c \in {r.isrInterrupted, r.resumeFirst}
    BY <1>3, <2>1 DEF Dispatched
  <2>3. r.resumeFirst # NoThread => r.resumeFirst \in Highest(r) /\ r.status[r.resumeFirst] = "ready"
    <3>1. r.resumeFirst = s.resumeFirst
      BY DEF Dispatched
    <3>2. Highest(s) \subseteq Contexts
      BY DEF Highest
    <3>. QED
      BY <1>2, <1>3, <2>1, <3>1, <3>2 DEF Core, HeldFor
  <2>4. r.resumeFirst # NoThread => r.current = IsrThread /\ r.isrInterrupted = NoThread
    BY DEF Core, HeldFor, Dispatched
  <2>. QED
    BY <2>2, <2>3, <2>4 DEF HeldFor
<1>. QED
  BY <1>1, <1>3, <1>4, <1>5, <1>6, <1>8, <1>9, <1>10 DEF Core

(* Core looks at these fields only.                                        *)
LEMMA CoreSame ==
  ASSUME NEW s, NEW r \in Records, Core(s),
         r.status = s.status, r.current = s.current, r.irql = s.irql, r.inIsr = s.inIsr,
         r.isrSavedIrql = s.isrSavedIrql, r.isrInterrupted = s.isrInterrupted,
         r.resumeFirst = s.resumeFirst, r.inDpc = s.inDpc, r.dpcSavedIrql = s.dpcSavedIrql,
         r.level = s.level
  PROVE  Core(r) /\ Keeps(s, r) /\ Highest(r) = Highest(s)
<1>1. Highest(r) = Highest(s)
  BY DEF Highest, High
<1>2. Keeps(s, r)
  BY DEF Keeps
<1>3. ThreadsOk(r) /\ RunsAlone(r) /\ KernelThreadsOk(r)
  BY DEF Core, ThreadsOk, RunsAlone, KernelThreadsOk
<1>4. OneHigh(r) /\ IsrLevel(r) /\ HeldFor(r)
  BY <1>1 DEF Core, OneHigh, Base, IsrLevel, HeldFor
<1>. QED
  BY <1>1, <1>2, <1>3, <1>4 DEF Core

LEMMA DpcQueueIs ==
  ASSUME NEW s, NEW d \in Dpcs, Core(s)
  PROVE  LET r == DpcQueue(s, d)
         IN /\ Core(r) /\ Keeps(s, r) /\ Highest(r) = Highest(s)
            /\ r.status = s.status /\ r.current = s.current /\ r.irql = s.irql /\ r.inIsr = s.inIsr
            /\ r.resumeFirst = s.resumeFirst /\ r.idle = s.idle /\ r.forceSwitch = s.forceSwitch
            /\ s.resched => r.resched
            /\ r.irql = PASSIVE_LEVEL => (r = s \/ r.resched)
<1>1. CASE Contains(s.dpcs, d)
  <2>1. DpcQueue(s, d) = s
    BY <1>1 DEF DpcQueue
  <2>2. Keeps(s, s)
    BY DEF Keeps
  <2>. QED
    BY <2>1, <2>2
<1>2. CASE ~Contains(s.dpcs, d)
  <2> DEFINE r == DpcQueue(s, d)
  <2>1. s \in Records
    BY DEF Core
  <2>2. PICK q \in Seq(Dpcs) : q = Append(s.dpcs, d)
    <3>1. s.dpcs \in Seq(Dpcs)
      BY <2>1 DEF Records
    <3>. QED
      BY <3>1, AppendProperties
  <2>3. PICK b \in BOOLEAN : b <=> s.resched \/ s.irql < DISPATCH_LEVEL
    OBVIOUS
  <2>4. r = [s EXCEPT !.dpcs = q, !.resched = b]
    <3>1. (s.resched \/ s.irql < DISPATCH_LEVEL) = b
      BY <2>3
    <3>. QED
      BY <1>2, <2>2, <3>1 DEF DpcQueue
  <2> HIDE DEF r
  <2>5. r \in Records
    BY <2>1, <2>2, <2>3, <2>4 DEF Records
  <2>6. /\ r.status = s.status /\ r.current = s.current /\ r.irql = s.irql /\ r.inIsr = s.inIsr
        /\ r.isrSavedIrql = s.isrSavedIrql /\ r.isrInterrupted = s.isrInterrupted
        /\ r.resumeFirst = s.resumeFirst /\ r.inDpc = s.inDpc /\ r.dpcSavedIrql = s.dpcSavedIrql
        /\ r.level = s.level /\ r.idle = s.idle /\ r.forceSwitch = s.forceSwitch /\ r.resched = b
    BY <2>1, <2>4 DEF Records
  <2>7. Core(r) /\ Keeps(s, r) /\ Highest(r) = Highest(s)
    BY <2>5, <2>6, CoreSame
  <2>8. r.irql = PASSIVE_LEVEL => r.resched
    <3> SUFFICES ASSUME r.irql = PASSIVE_LEVEL PROVE b
      BY <2>6
    <3>1. s.irql = 0
      BY <2>6 DEF PASSIVE_LEVEL
    <3>2. s.irql < DISPATCH_LEVEL
      BY <3>1 DEF DISPATCH_LEVEL
    <3>. QED
      BY <2>3, <3>2
  <2>9. s.resched => r.resched
    BY <2>3, <2>6
  <2>. QED
    BY <2>6, <2>7, <2>8, <2>9 DEF r
<1>. QED
  BY <1>1, <1>2

-----------------------------------------------------------------------------
(***************************************************************************)
(* A pass of the scheduler.                                                *)
(***************************************************************************)
LEMMA PassDpcQueue ==
  ASSUME NEW s, NEW d \in Dpcs, InPass(s)
  PROVE  InPass(DpcQueue(s, d)) /\ Keeps(s, DpcQueue(s, d))
BY DpcQueueIs DEF InPass

LEMMA PassIntr ==
  ASSUME NEW s, InPass(s), lines \subseteq Lines
  PROVE  LET r == IntrDispatch(s, TRUE) IN InPass(r) /\ Keeps(s, r)
<1> DEFINE r == IntrDispatch(s, TRUE)
<1>1. CASE r = s
  BY <1>1 DEF Keeps
<1>2. CASE Dispatched(s, r)
  <2> HIDE DEF r
  <2>1. \A c \in Highest(s) : c \in {s.current, s.resumeFirst}
    BY <1>2 DEF InPass, Dispatched
  <2>2. Core(r) /\ Keeps(s, r)
    BY <1>2, <2>1, DispatchedCore DEF InPass
  <2>3. \A c \in Contexts : r.status[c] # "running"
    BY <1>2 DEF InPass, Dispatched, Core, Records
  <2>4. r.inIsr
    BY <1>2 DEF Dispatched
  <2>. QED
    BY <2>2, <2>3, <2>4 DEF InPass, r
<1>. QED
  BY <1>1, <1>2, IntrDispatchIs DEF InPass, Core

LEMMA PassDpc ==
  ASSUME NEW s, InPass(s)
  PROVE  LET r == DpcDispatch(s) IN ToChoose(r) /\ Keeps(s, r)
<1> DEFINE r == DpcDispatch(s)
<1>1. s \in Records /\ s.irql \in Irqls
  BY DEF InPass, Core, Records
<1>2. CASE s.dpcs = << >> \/ s.inDpc \/ s.irql >= DISPATCH_LEVEL
  <2>1. r = s
    BY <1>2 DEF DpcDispatch
  <2>2. s.irql = PASSIVE_LEVEL => s.dpcs = << >>
    <3> SUFFICES ASSUME s.irql = PASSIVE_LEVEL, s.inDpc PROVE FALSE
      BY <1>2, LevelsAre
    <3>1. ~s.inIsr
      BY DEF InPass, Core, IsrLevel
    <3>2. DpcThread \in Highest(s)
      BY ContextsAre DEF InPass, Core, KernelThreadsOk, Highest, High
    <3>3. s.level[DpcThread] = s.irql
      BY <3>1, <3>2 DEF InPass, Core, OneHigh, Base
    <3>. QED
      BY <3>3 DEF InPass, Core, KernelThreadsOk
  <2>3. \A c \in Highest(s) : ~s.inIsr => c \in {s.resumeFirst, DpcThread}
    BY DEF InPass
  <2>. QED
    BY <2>1, <2>2, <2>3 DEF InPass, ToChoose, Keeps
<1>3. CASE ~(s.dpcs = << >> \/ s.inDpc \/ s.irql >= DISPATCH_LEVEL)
  <2>1. s.irql = PASSIVE_LEVEL /\ ~s.inIsr /\ ~s.inDpc
    <3>1. s.irql = PASSIVE_LEVEL
      BY <1>1, <1>3, LevelsAre
    <3>. QED
      BY <1>3, <3>1 DEF InPass, Core, IsrLevel
  <2>2. Highest(s) = {} /\ s.resumeFirst = NoThread
    <3>1. \A c \in Highest(s) : s.level[c] = PASSIVE_LEVEL
      BY <2>1 DEF InPass, Core, OneHigh, Base
    <3>2. Highest(s) = {}
      BY <3>1 DEF Highest, High
    <3>. QED
      BY <3>2 DEF InPass, Core, HeldFor
  <2>3. PICK status \in [Contexts -> Statuses] : status = [s.status EXCEPT ![DpcThread] = "ready"]
    BY <1>1 DEF Records, Statuses
  <2>4. PICK level \in [Contexts -> Irqls] : level = [s.level EXCEPT ![DpcThread] = DISPATCH_LEVEL]
    BY <1>1, LevelsAre DEF Records
  <2>5. PICK flag \in [Contexts -> BOOLEAN] : flag = [s.interruptFlag EXCEPT ![DpcThread] = TRUE]
    BY <1>1 DEF Records
  <2>6. PICK q \in Seq(Dpcs) : q = Tail(s.dpcs)
    BY <1>1, <1>3, HeadTailProperties DEF Records
  <2>7. r = [s EXCEPT !.dpcs = q, !.status = status, !.interruptFlag = flag, !.inDpc = TRUE,
                      !.dpcSavedIrql = s.irql, !.irql = DISPATCH_LEVEL, !.level = level]
    BY <1>3, <2>3, <2>4, <2>5, <2>6 DEF DpcDispatch
  <2> HIDE DEF r
  <2>8. r \in Records
    BY <1>1, <2>3, <2>4, <2>5, <2>6, <2>7, LevelsAre DEF Records
  <2>9. /\ r.status = status /\ r.level = level /\ r.inDpc /\ r.dpcSavedIrql = s.irql
        /\ r.irql = DISPATCH_LEVEL /\ r.inIsr = s.inIsr /\ r.resumeFirst = s.resumeFirst
        /\ r.current = s.current /\ r.forceSwitch = s.forceSwitch
    BY <1>1, <2>7 DEF Records
  <2>10. /\ \A c \in Contexts : r.status[c] = IF c = DpcThread THEN "ready" ELSE s.status[c]
         /\ \A c \in Contexts : r.level[c] = IF c = DpcThread THEN DISPATCH_LEVEL ELSE s.level[c]
    BY <1>1, <2>3, <2>4, <2>9 DEF Records
  <2>11. Highest(r) = {DpcThread}
    <3>1. \A c \in Contexts : c # DpcThread => ~High(r, c)
      BY <2>2, <2>10 DEF Highest, High
    <3>2. High(r, DpcThread)
      BY <2>10, ContextsAre, LevelsAre DEF High
    <3>. QED
      BY <3>1, <3>2, ContextsAre DEF Highest
  <2>12. ThreadsOk(r) /\ RunsAlone(r)
    BY <2>9, <2>10, ContextsAre DEF InPass, Core, ThreadsOk, RunsAlone
  <2>13. KernelThreadsOk(r)
    BY <2>1, <2>9, <2>10, ContextsAre, LevelsAre DEF InPass, Core, KernelThreadsOk
  <2>14. OneHigh(r)
    BY <2>1, <2>9, <2>10, <2>11, ContextsAre DEF OneHigh, Base
  <2>15. IsrLevel(r) /\ HeldFor(r)
    BY <2>1, <2>2, <2>9 DEF IsrLevel, HeldFor
  <2>16. Keeps(s, r)
    BY <2>1, <2>10 DEF Keeps, InPass, Core, KernelThreadsOk
  <2>17. \A c \in Contexts : r.status[c] # "running"
    BY <2>10 DEF InPass
  <2>18. ToChoose(r)
    BY <2>8, <2>9, <2>11, <2>12, <2>13, <2>14, <2>15, <2>17, LevelsAre
    DEF InPass, ToChoose, Core
  <2>. QED
    BY <2>16, <2>18 DEF r
<1>. QED
  BY <1>2, <1>3

LEMMA KeepsTwice ==
  ASSUME NEW s, NEW r, NEW q, Keeps(s, r), Keeps(r, q)
  PROVE  Keeps(s, q)
BY DEF Keeps

LEMMA WaitEndsIs ==
  ASSUME NEW s, NEW t \in Threads, Core(s), s.status[t] \in {"waiting", "ready"}
  PROVE  LET r == WaitEnds(s, t)
         IN /\ Core(r) /\ Keeps(s, r) /\ Highest(r) = Highest(s)
            /\ \A c \in Contexts : r.status[c] = IF c = t THEN "ready" ELSE s.status[c]
            /\ r.current = s.current /\ r.irql = s.irql /\ r.inIsr = s.inIsr /\ r.level = s.level
            /\ r.dpcs = s.dpcs /\ r.resched = s.resched
            /\ r.resumeFirst = s.resumeFirst /\ r.idle = s.idle /\ r.forceSwitch = s.forceSwitch
<1> DEFINE r == WaitEnds(s, t)
<1>1. s \in Records /\ t \in Contexts
  BY ContextsAre DEF Core
<1>2. PICK status \in [Contexts -> Statuses] : status = [s.status EXCEPT ![t] = "ready"]
  BY <1>1 DEF Records, Statuses
<1>3. r = [s EXCEPT !.status = status]
  BY <1>2 DEF WaitEnds
<1> HIDE DEF r
<1>4. r \in Records
  BY <1>1, <1>2, <1>3 DEF Records
<1>5. /\ r.status = status /\ r.current = s.current /\ r.irql = s.irql /\ r.inIsr = s.inIsr
      /\ r.isrSavedIrql = s.isrSavedIrql /\ r.isrInterrupted = s.isrInterrupted
      /\ r.resumeFirst = s.resumeFirst /\ r.inDpc = s.inDpc /\ r.dpcSavedIrql = s.dpcSavedIrql
      /\ r.level = s.level /\ r.idle = s.idle /\ r.forceSwitch = s.forceSwitch
      /\ r.dpcs = s.dpcs /\ r.resched = s.resched
  BY <1>1, <1>3 DEF Records
<1>6. \A c \in Contexts : r.status[c] = IF c = t THEN "ready" ELSE s.status[c]
  BY <1>1, <1>2, <1>5 DEF Records
<1>7. Highest(r) = Highest(s)
  BY <1>5, <1>6 DEF Highest, High
<1>8. Keeps(s, r)
  BY <1>5, <1>6 DEF Keeps
<1>9. ThreadsOk(r)
  BY <1>5, <1>6, ContextsAre DEF Core, ThreadsOk
<1>10. RunsAlone(r)
  BY <1>5, <1>6 DEF Core, RunsAlone
<1>11. KernelThreadsOk(r)
  BY <1>5, <1>6, ContextsAre DEF Core, KernelThreadsOk
<1>12. OneHigh(r)
  BY <1>5, <1>7 DEF Core, OneHigh, Base
<1>13. IsrLevel(r)
  BY <1>5 DEF Core, IsrLevel
<1>14. HeldFor(r)
  <2>1. \A c \in Highest(r) : c \in Contexts
    BY DEF Highest
  <2>. QED
    BY <1>5, <1>6, <1>7, <2>1 DEF Core, HeldFor
<1>15. Core(r)
  BY <1>4, <1>9, <1>10, <1>11, <1>12, <1>13, <1>14 DEF Core
<1>. QED
  BY <1>5, <1>6, <1>7, <1>8, <1>15 DEF r

LEMMA WaitingIsThread ==
  ASSUME NEW s, Core(s), NEW t \in In(s, "waiting")
  PROVE  t \in Threads /\ s.status[t] = "waiting"
BY ContextsAre DEF In, Core, KernelThreadsOk

LEMMA PassCheckWaits ==
  ASSUME NEW s, ToChoose(s), NEW w \in CheckWaits(s)
  PROVE  ToChoose(w) /\ Keeps(s, w)
<1>1. CASE w = s
  BY <1>1 DEF Keeps
<1>2. CASE w # s
  <2>1. PICK t \in In(s, "waiting") : w = WaitEnds(s, t)
    BY <1>2 DEF CheckWaits
  <2>2. Core(s)
    BY DEF ToChoose
  <2>3. t \in Threads /\ s.status[t] = "waiting"
    BY <2>2, WaitingIsThread
  <2>4. /\ Core(w) /\ Keeps(s, w) /\ Highest(w) = Highest(s)
        /\ \A c \in Contexts : w.status[c] = IF c = t THEN "ready" ELSE s.status[c]
        /\ w.irql = s.irql /\ w.inIsr = s.inIsr
        /\ w.dpcs = s.dpcs /\ w.resumeFirst = s.resumeFirst /\ w.forceSwitch = s.forceSwitch
    BY <2>1, <2>2, <2>3, WaitEndsIs
  <2>5. \A c \in Contexts : w.status[c] # "running"
    BY <2>4 DEF ToChoose
  <2>. QED
    BY <2>4, <2>5 DEF ToChoose
<1>. QED
  BY <1>1, <1>2

(* The CPU goes to next, which is due it.                                  *)
LEMMA SwitchToIs ==
  ASSUME NEW s, ToChoose(s), NEW next \in Contexts, s.status[next] = "ready",
         s.inIsr => next = IsrThread,
         ~s.inIsr => \A c \in Highest(s) : c = next
  PROVE  Between(SwitchTo(s, next)) /\ Keeps(s, SwitchTo(s, next))
<1> DEFINE r == SwitchTo(s, next)
<1>1. s \in Records
  BY DEF ToChoose, Core
<1>2. PICK status \in [Contexts -> Statuses] : status = [s.status EXCEPT ![next] = "running"]
  BY <1>1 DEF Records, Statuses
<1>3. PICK first \in Contexts \cup {NoThread} :
        first = IF s.resumeFirst = next THEN NoThread ELSE s.resumeFirst
  BY <1>1 DEF Records
<1>4. r = [s EXCEPT !.current = next, !.status = status, !.resumeFirst = first, !.idle = FALSE]
  BY <1>2, <1>3 DEF SwitchTo
<1> HIDE DEF r
<1>5. r \in Records
  BY <1>1, <1>2, <1>3, <1>4 DEF Records
<1>6. /\ r.status = status /\ r.current = next /\ r.irql = s.irql /\ r.inIsr = s.inIsr
      /\ r.isrSavedIrql = s.isrSavedIrql /\ r.isrInterrupted = s.isrInterrupted
      /\ r.resumeFirst = first /\ r.inDpc = s.inDpc /\ r.dpcSavedIrql = s.dpcSavedIrql
      /\ r.level = s.level /\ ~r.idle /\ r.forceSwitch = s.forceSwitch /\ r.dpcs = s.dpcs
  BY <1>1, <1>4 DEF Records
<1>7. \A c \in Contexts : r.status[c] = IF c = next THEN "running" ELSE s.status[c]
  BY <1>1, <1>2, <1>6 DEF Records
<1>8. Highest(r) = Highest(s)
  BY <1>6, <1>7 DEF Highest, High
<1>9. Keeps(s, r)
  BY <1>6, <1>7 DEF Keeps
<1>10. ThreadsOk(r)
  BY <1>6, <1>7, ContextsAre DEF ToChoose, Core, ThreadsOk
<1>11. RunsAlone(r)
  BY <1>6, <1>7 DEF ToChoose, RunsAlone
<1>12. KernelThreadsOk(r)
  BY <1>6, <1>7, ContextsAre DEF ToChoose, Core, KernelThreadsOk
<1>13. OneHigh(r)
  BY <1>6, <1>8 DEF ToChoose, Core, OneHigh, Base
<1>14. IsrLevel(r)
  BY <1>6 DEF ToChoose, Core, IsrLevel
<1>15. HeldFor(r)
  <2>1. \A c \in Highest(r) : c \in Contexts /\ c # IsrThread
    BY DEF Highest, High
  <2>2. r.resumeFirst # NoThread =>
          r.resumeFirst = s.resumeFirst /\ r.resumeFirst # next /\ r.resumeFirst \in Highest(r)
    BY <1>3, <1>6, <1>8 DEF ToChoose, Core, HeldFor
  <2>3. r.resumeFirst # NoThread => r.status[r.resumeFirst] = "ready"
    BY <1>7, <2>1, <2>2 DEF ToChoose, Core, HeldFor
  <2>4. r.resumeFirst # NoThread => s.inIsr /\ next = IsrThread
    BY <1>8, <2>2
  <2>5. r.resumeFirst # NoThread => r.isrInterrupted = NoThread
    BY <1>6, <2>2, <2>4 DEF ToChoose, Core, HeldFor
  <2>6. s.inIsr => r.resumeFirst = s.resumeFirst
    <3> SUFFICES ASSUME s.inIsr, s.resumeFirst = next PROVE FALSE
      BY <1>3, <1>6
    <3>1. s.resumeFirst # NoThread
      BY ContextsAre
    <3>. QED
      BY <1>8, <2>1, <3>1 DEF ToChoose, Core, HeldFor
  <2>7. s.inIsr => \A c \in Highest(r) : c \in {r.isrInterrupted, r.resumeFirst}
    BY <1>6, <1>8, <2>6 DEF ToChoose, Core, HeldFor
  <2>. QED
    BY <1>6, <2>2, <2>3, <2>4, <2>5, <2>7 DEF HeldFor
<1>16. Core(r)
  BY <1>5, <1>10, <1>11, <1>12, <1>13, <1>14, <1>15 DEF Core
<1>17. RightOneRuns(r)
  BY <1>6, <1>7, <1>8 DEF RightOneRuns
<1>18. Between(r)
  BY <1>6, <1>16, <1>17, EmptyLeft DEF Between, ToChoose
<1>. QED
  BY <1>9, <1>18 DEF r

LEMMA ChooseIs ==
  ASSUME NEW s, ToChoose(s), priority \in Priorities
  PROVE  Between(Choose(s)) /\ Keeps(s, Choose(s))
<1> DEFINE ready == In(s, "ready")
<1>1. s \in Records /\ Core(s)
  BY DEF ToChoose, Core
<1>2. \A c \in Contexts : s.status[c] \in Statuses
  BY <1>1 DEF Records
<1>3. \A c \in Highest(s) : c \in Contexts /\ c # IsrThread /\ s.status[c] # "suspended"
  BY DEF Highest, High
<1>4. s.inIsr <=> IsrThread \in ready
  BY <1>1, <1>2, ContextsAre DEF Core, KernelThreadsOk, ToChoose, In, Statuses
<1>5. DpcThread \in Highest(s) => DpcThread \in ready
  BY <1>1, <1>2, <1>3, ContextsAre DEF Core, KernelThreadsOk, ToChoose, In, Statuses
<1>6. s.resumeFirst # NoThread => s.resumeFirst \in Highest(s) /\ s.resumeFirst \in ready
  BY <1>1, <1>3 DEF Core, HeldFor, In
<1>7. CASE s.resumeFirst \in ready /\ ~s.inIsr
  <2>1. Choose(s) = SwitchTo(s, s.resumeFirst)
    BY <1>7 DEF Choose
  <2>2. s.resumeFirst \in Contexts /\ s.status[s.resumeFirst] = "ready" /\ s.resumeFirst # NoThread
    BY <1>7, ContextsAre DEF In
  <2>3. \A c \in Highest(s) : c = s.resumeFirst
    BY <1>1, <1>6, <2>2 DEF Core, OneHigh
  <2>. QED
    BY <1>7, <2>1, <2>2, <2>3, SwitchToIs
<1>8. CASE ~(s.resumeFirst \in ready /\ ~s.inIsr) /\ ready = {}
  <2> DEFINE r == Choose(s)
  <2>1. r = [s EXCEPT !.idle = TRUE]
    BY <1>8 DEF Choose
  <2> HIDE DEF r
  <2>2. r \in Records
    BY <1>1, <2>1 DEF Records
  <2>3. /\ r.status = s.status /\ r.current = s.current /\ r.irql = s.irql /\ r.inIsr = s.inIsr
        /\ r.isrSavedIrql = s.isrSavedIrql /\ r.isrInterrupted = s.isrInterrupted
        /\ r.resumeFirst = s.resumeFirst /\ r.inDpc = s.inDpc /\ r.dpcSavedIrql = s.dpcSavedIrql
        /\ r.level = s.level /\ r.idle /\ r.forceSwitch = s.forceSwitch /\ r.dpcs = s.dpcs
    BY <1>1, <2>1 DEF Records
  <2>4. Core(r) /\ Keeps(s, r) /\ Highest(r) = Highest(s)
    BY <1>1, <2>2, <2>3, CoreSame
  <2>5. ~s.inIsr /\ Highest(s) = {}
    <3>1. ~s.inIsr
      BY <1>4, <1>8
    <3>2. ASSUME NEW c \in Highest(s) PROVE FALSE
      <4>1. c \in {s.resumeFirst, DpcThread}
        BY <3>1 DEF ToChoose
      <4>2. c # NoThread
        BY <1>3, ContextsAre
      <4>. QED
        BY <1>5, <1>6, <1>8, <4>1, <4>2
    <3>. QED
      BY <3>1, <3>2
  <2>6. \A c \in Contexts : s.status[c] \notin {"ready", "running"}
    BY <1>8 DEF In, ToChoose
  <2>7. Between(r)
    BY <2>3, <2>4, <2>5, <2>6, EmptyLeft DEF Between, ToChoose
  <2>. QED
    BY <2>4, <2>7 DEF r
<1>9. CASE ~(s.resumeFirst \in ready /\ ~s.inIsr) /\ ready # {}
  <2>1. PICK turn \in Seq(Threads) : turn = s.turn \o NewlyReady(s)
    <3>1. s.turn \in Seq(Threads) /\ NewlyReady(s) \in Seq(Threads)
      BY <1>1, NewlyReadyIs DEF Records
    <3>. QED
      BY <3>1, ConcatProperties
  <2>2. PICK placed : placed = [s EXCEPT !.turn = turn]
    OBVIOUS
  <2>3. placed \in Records
    BY <1>1, <2>1, <2>2 DEF Records
  <2>4. /\ placed.status = s.status /\ placed.current = s.current /\ placed.irql = s.irql
        /\ placed.inIsr = s.inIsr
        /\ placed.isrSavedIrql = s.isrSavedIrql /\ placed.isrInterrupted = s.isrInterrupted
        /\ placed.resumeFirst = s.resumeFirst /\ placed.inDpc = s.inDpc
        /\ placed.dpcSavedIrql = s.dpcSavedIrql /\ placed.level = s.level
        /\ placed.forceSwitch = s.forceSwitch /\ placed.dpcs = s.dpcs /\ placed.turn = turn
    BY <1>1, <2>2 DEF Records
  <2>5. Core(placed) /\ Keeps(s, placed) /\ Highest(placed) = Highest(s)
    BY <1>1, <2>3, <2>4, CoreSame
  <2>6. ToChoose(placed)
    BY <2>4, <2>5 DEF ToChoose
  <2>7. In(placed, "ready") = ready
    BY <2>4 DEF In
  <2>8. \A t \in Threads \cap ready : Contains(placed.turn, t)
    <3> TAKE t \in Threads \cap ready
    <3>1. s.turn \in Seq(Threads) /\ NewlyReady(s) \in Seq(Threads)
      BY <1>1, NewlyReadyIs DEF Records
    <3>2. Contains(s.turn, t) \/ Contains(NewlyReady(s), t)
      BY <1>1, NewlyReadyIs
    <3>. QED
      BY <2>1, <2>4, <3>1, <3>2, ContainsConcat
  <2>9. PICK next : next = CHOOSE c \in ready : \A e \in ready \ {c} : Precedes(placed, c, e)
    OBVIOUS
  <2>10. Best(placed, next)
    <3>1. \E c : Best(placed, c)
      BY <1>9, <2>3, <2>7, <2>8, BestExists
    <3>2. \E c \in ready : \A e \in ready \ {c} : Precedes(placed, c, e)
      BY <2>7, <3>1 DEF Best
    <3>3. next \in ready /\ \A e \in ready \ {next} : Precedes(placed, next, e)
      BY <2>9, <3>2
    <3>. QED
      BY <2>7, <3>3 DEF Best
  <2>11. Choose(s) = SwitchTo(placed, next)
    BY <1>9, <2>1, <2>2, <2>9 DEF Choose
  <2>12. next \in Contexts /\ placed.status[next] = "ready"
    BY <2>10 DEF Best, In
  <2>13. s.inIsr => next = IsrThread
    BY <1>4, <2>3, <2>7, <2>10, IsrIsBest
  <2>14. ~s.inIsr => \A c \in Highest(s) : c = next
    <3> SUFFICES ASSUME ~s.inIsr, NEW c \in Highest(s) PROVE c = next
      OBVIOUS
    <3>1. c \in {s.resumeFirst, DpcThread}
      BY DEF ToChoose
    <3>2. c # s.resumeFirst
      BY <1>3, <1>6, <1>9, ContextsAre
    <3>3. DpcThread \in ready /\ IsrThread \notin ready /\ c = DpcThread
      BY <1>4, <1>5, <3>1, <3>2
    <3>. QED
      BY <2>3, <2>7, <2>10, <3>3, DpcIsBest
  <2>15. Between(SwitchTo(placed, next)) /\ Keeps(placed, SwitchTo(placed, next))
    BY <2>4, <2>5, <2>6, <2>12, <2>13, <2>14, SwitchToIs
  <2>. QED
    BY <2>5, <2>11, <2>15, KeepsTwice
<1>. QED
  BY <1>7, <1>8, <1>9

LEMMA PassIs ==
  ASSUME NEW s, InPass(s), priority \in Priorities, lines \subseteq Lines, NEW r \in Pass(s)
  PROVE  Between(r) /\ Keeps(s, r)
<1>1. PICK p \in TimerPoll(s) :
        \E w \in CheckWaits(DpcDispatch(IntrDispatch(p, TRUE))) : r = Choose(w)
  BY DEF Pass
<1>2. InPass(p) /\ Keeps(s, p)
  <2>1. CASE p = s
    BY <2>1 DEF Keeps
  <2>2. CASE p # s
    BY <1>1, <2>2, PassDpcQueue DEF TimerPoll
  <2>. QED
    BY <2>1, <2>2
<1>3. PICK i : i = IntrDispatch(p, TRUE)
  OBVIOUS
<1>4. InPass(i) /\ Keeps(p, i)
  BY <1>2, <1>3, PassIntr
<1>5. PICK d : d = DpcDispatch(i)
  OBVIOUS
<1>6. ToChoose(d) /\ Keeps(i, d)
  BY <1>4, <1>5, PassDpc
<1>7. PICK w \in CheckWaits(d) : r = Choose(w)
  BY <1>1, <1>3, <1>5
<1>8. ToChoose(w) /\ Keeps(d, w)
  BY <1>6, <1>7, PassCheckWaits
<1>9. Between(r) /\ Keeps(w, r)
  BY <1>7, <1>8, ChooseIs
<1>. QED
  BY <1>2, <1>4, <1>6, <1>8, <1>9, KeepsTwice

LEMMA SwitchOutIs ==
  ASSUME NEW s, Core(s), ~s.inIsr => \A c \in Highest(s) : c = s.resumeFirst
  PROVE  InPass(SwitchOut(s)) /\ Keeps(s, SwitchOut(s))
<1> DEFINE r == SwitchOut(s)
           cur == s.current
<1>1. s \in Records /\ cur \in Contexts
  BY DEF Core, Records
<1>2. PICK status \in [Contexts -> Statuses] :
        status = [s.status EXCEPT ![cur] = IF s.status[cur] = "running" THEN "ready" ELSE s.status[cur]]
  BY <1>1 DEF Records, Statuses
<1>3. PICK turn \in Seq(Threads) :
        turn = IF cur \notin Threads THEN s.turn
               ELSE IF s.status[cur] # "running" THEN Without(s.turn, cur)
               ELSE IF s.sliceExpired \/ ~Contains(s.turn, cur) THEN Append(Without(s.turn, cur), cur)
               ELSE s.turn
  <2>1. s.turn \in Seq(Threads)
    BY <1>1 DEF Records
  <2>2. Without(s.turn, cur) \in Seq(Threads)
    BY <2>1, WithoutIs
  <2>3. cur \in Threads => Append(Without(s.turn, cur), cur) \in Seq(Threads)
    BY <2>2, AppendProperties
  <2>. QED
    BY <2>1, <2>2, <2>3
<1>4. r = [s EXCEPT !.resched = FALSE, !.forceSwitch = FALSE, !.sliceExpired = FALSE,
                    !.status = status, !.turn = turn]
  BY <1>2, <1>3 DEF SwitchOut
<1> HIDE DEF r
<1>5. r \in Records
  <2>1. PICK q : q = [s EXCEPT !.resched = FALSE, !.forceSwitch = FALSE, !.sliceExpired = FALSE]
    OBVIOUS
  <2>2. q \in Records
    BY <1>1, <2>1 DEF Records
  <2>3. r = [q EXCEPT !.status = status, !.turn = turn]
    BY <1>1, <1>4, <2>1 DEF Records
  <2>. QED
    BY <1>2, <1>3, <2>2, <2>3 DEF Records
<1>6. /\ r.status = status /\ r.current = s.current /\ r.irql = s.irql /\ r.inIsr = s.inIsr
      /\ r.isrSavedIrql = s.isrSavedIrql /\ r.isrInterrupted = s.isrInterrupted
      /\ r.resumeFirst = s.resumeFirst /\ r.inDpc = s.inDpc /\ r.dpcSavedIrql = s.dpcSavedIrql
      /\ r.level = s.level /\ ~r.forceSwitch
  BY <1>1, <1>4 DEF Records
<1>7. \A c \in Contexts : r.status[c] = IF s.status[c] = "running" THEN "ready" ELSE s.status[c]
  BY <1>1, <1>2, <1>6 DEF Records, Core, RunsAlone
<1>8. Highest(r) = Highest(s)
  BY <1>6, <1>7 DEF Highest, High
<1>9. Keeps(s, r)
  BY <1>6, <1>7 DEF Keeps
<1>10. ThreadsOk(r)
  BY <1>6, <1>7, ContextsAre DEF Core, ThreadsOk
<1>11. \A c \in Contexts : r.status[c] # "running"
  BY <1>7
<1>12. KernelThreadsOk(r)
  BY <1>6, <1>7, ContextsAre DEF Core, KernelThreadsOk
<1>13. OneHigh(r)
  BY <1>6, <1>8 DEF Core, OneHigh, Base
<1>14. IsrLevel(r)
  BY <1>6 DEF Core, IsrLevel
<1>15. HeldFor(r)
  <2>1. \A c \in Highest(r) : c \in Contexts
    BY DEF Highest
  <2>. QED
    BY <1>6, <1>7, <1>8, <2>1 DEF Core, HeldFor
<1>16. Core(r)
  BY <1>5, <1>10, <1>11, <1>12, <1>13, <1>14, <1>15 DEF Core, RunsAlone
<1>17. InPass(r)
  BY <1>6, <1>8, <1>11, <1>16 DEF InPass
<1>. QED
  BY <1>9, <1>17 DEF r

LEMMA SysOpEndIs ==
  ASSUME NEW s, AtEnd(s), priority \in Priorities, lines \subseteq Lines, NEW r \in SysOpEnd(s)
  PROVE  Between(r) /\ Keeps(s, r)
<1> DEFINE running == s.status[s.current] = "running"
<1>1. PICK d : d = IntrDispatch(s, ~running \/ s.interruptFlag[s.current])
  OBVIOUS
<1>2. \/ d.resched /\ (d.forceSwitch \/ ~(running /\ d.irql >= DISPATCH_LEVEL)) /\ r \in Schedule(d)
      \/ ~(d.resched /\ (d.forceSwitch \/ ~(running /\ d.irql >= DISPATCH_LEVEL))) /\ r = d
  BY <1>1 DEF SysOpEnd
<1>3. Core(s) /\ s \in Records /\ s.irql \in Irqls
  BY DEF AtEnd, Core, Records
<1>4. ASSUME Core(d), Keeps(s, d), ~d.inIsr => \A c \in Highest(d) : c = d.resumeFirst,
             r \in Schedule(d)
      PROVE  Between(r) /\ Keeps(s, r)
  <2>1. PICK o : o = SwitchOut(d)
    OBVIOUS
  <2>2. InPass(o) /\ Keeps(d, o)
    BY <1>4, <2>1, SwitchOutIs
  <2>3. Between(r) /\ Keeps(o, r)
    BY <1>4, <2>1, <2>2, PassIs DEF Schedule
  <2>. QED
    BY <1>4, <2>2, <2>3, KeepsTwice
<1>5. CASE Dispatched(s, d)
  <2>1. \A c \in Highest(s) : c \in {s.current, s.resumeFirst}
    BY <1>5 DEF AtEnd, RightOneRuns, Dispatched
  <2>2. Core(d) /\ Keeps(s, d)
    BY <1>3, <1>5, <2>1, DispatchedCore
  <2>. QED
    BY <1>2, <1>4, <1>5, <2>2 DEF Dispatched
<1>6. CASE d = s
  <2>1. Keeps(s, s)
    BY DEF Keeps
  <2>2. CASE s.resched /\ (s.forceSwitch \/ ~(running /\ s.irql >= DISPATCH_LEVEL)) /\ r \in Schedule(s)
    <3>1. ASSUME ~s.inIsr, NEW c \in Highest(s) PROVE c = s.resumeFirst
      <4>1. CASE ~running
        BY <3>1, <4>1 DEF AtEnd
      <4>2. CASE running
        <5>1. ~s.forceSwitch
          BY <3>1, <4>2 DEF AtEnd
        <5>2. ~(s.irql >= DISPATCH_LEVEL)
          BY <2>2, <4>2, <5>1
        <5>3. s.irql = PASSIVE_LEVEL
          BY <1>3, <5>2, LevelsAre
        <5>4. s.level[c] = PASSIVE_LEVEL
          BY <1>3, <3>1, <5>3 DEF Core, OneHigh, Base
        <5>. QED
          BY <3>1, <5>4 DEF Highest, High
      <4>. QED
        BY <4>1, <4>2
    <3>. QED
      BY <1>3, <1>4, <1>6, <2>1, <2>2, <3>1
  <2>3. CASE ~(s.resched /\ (s.forceSwitch \/ ~(running /\ s.irql >= DISPATCH_LEVEL))) /\ r = s
    <3>1. running
      BY <2>3 DEF AtEnd
    <3>2. s.irql = PASSIVE_LEVEL => Left(s)
      <4> SUFFICES ASSUME s.irql = PASSIVE_LEVEL, ~Left(s) PROVE FALSE
        OBVIOUS
      <4>1. s.resched
        BY DEF AtEnd
      <4>2. ~(s.irql >= DISPATCH_LEVEL)
        BY DEF PASSIVE_LEVEL, DISPATCH_LEVEL
      <4>. QED
        BY <2>3, <4>1, <4>2
    <3>3. Between(s)
      BY <3>1, <3>2 DEF AtEnd, Between
    <3>. QED
      BY <2>1, <2>3, <3>3
  <2>. QED
    BY <1>2, <1>6, <2>2, <2>3
<1>. QED
  BY <1>1, <1>3, <1>5, <1>6, IntrDispatchIs

-----------------------------------------------------------------------------
(***************************************************************************)
(* An entry, from the look at the clock to its end.                        *)
(***************************************************************************)
SameCpu(s, r) ==
  /\ r.current = s.current /\ r.irql = s.irql /\ r.inIsr = s.inIsr /\ r.level = s.level
  /\ r.isrLine = s.isrLine
  /\ \A c \in Contexts : r.status[c] = s.status[c] \/ (s.status[c] = "waiting" /\ r.status[c] = "ready")

(* A step that sets no more than these fields.                             *)
FlagsOf(s, over, due, flag, queue) ==
  [s EXCEPT !.sliceExpired = over, !.resched = due, !.interruptFlag = flag, !.dpcs = queue]

LEMMA FlagsSet ==
  ASSUME NEW s, Core(s), NEW over \in BOOLEAN, NEW due \in BOOLEAN, NEW flag \in [Contexts -> BOOLEAN],
         NEW queue \in Seq(Dpcs), NEW r,
         r = FlagsOf(s, over, due, flag, queue)
  PROVE  /\ Core(r) /\ Keeps(s, r) /\ Highest(r) = Highest(s) /\ SameCpu(s, r)
         /\ r.status = s.status /\ r.resched = due /\ r.dpcs = queue
         /\ r.idle = s.idle /\ r.forceSwitch = s.forceSwitch /\ r.resumeFirst = s.resumeFirst
<1>1. s \in Records
  BY DEF Core
<1>2. r \in Records
  BY <1>1 DEF Records, FlagsOf
<1>3. /\ r.status = s.status /\ r.current = s.current /\ r.irql = s.irql /\ r.inIsr = s.inIsr
      /\ r.isrSavedIrql = s.isrSavedIrql /\ r.isrInterrupted = s.isrInterrupted
      /\ r.resumeFirst = s.resumeFirst /\ r.inDpc = s.inDpc /\ r.dpcSavedIrql = s.dpcSavedIrql
      /\ r.level = s.level /\ r.idle = s.idle /\ r.forceSwitch = s.forceSwitch
      /\ r.resched = due /\ r.dpcs = queue /\ r.isrLine = s.isrLine
  BY <1>1 DEF Records, FlagsOf
<1>4. Core(r) /\ Keeps(s, r) /\ Highest(r) = Highest(s)
  BY <1>2, <1>3, CoreSame
<1>5. SameCpu(s, r)
  <2>1. \A c \in Contexts : r.status[c] = s.status[c]
    BY <1>3
  <2>. QED
    BY <1>3, <2>1 DEF SameCpu
<1>. QED
  BY <1>3, <1>4, <1>5

LEMMA SameTwice ==
  ASSUME NEW s, NEW r, NEW q, SameCpu(s, r), SameCpu(r, q)
  PROVE  SameCpu(s, q)
BY DEF SameCpu

(* One that was running still is.                                          *)
LEMMA RightStays ==
  ASSUME NEW s, NEW r, RightOneRuns(s), s \in Records, SameCpu(s, r), Highest(r) = Highest(s)
  PROVE  RightOneRuns(r)
<1>1. s.current \in Contexts /\ r.status[s.current] = "running"
  BY DEF Records, SameCpu, RightOneRuns
<1>. QED
  BY <1>1 DEF SameCpu, RightOneRuns

LEMMA QueueIs ==
  ASSUME NEW s, NEW d \in Dpcs, Entered(s)
  PROVE  LET r == DpcQueue(s, d) IN Entered(r) /\ Keeps(s, r) /\ SameCpu(s, r)
<1> DEFINE r == DpcQueue(s, d)
<1>1. s \in Records /\ Core(s)
  BY DEF Entered, Core
<1>2. /\ Core(r) /\ Keeps(s, r) /\ Highest(r) = Highest(s)
      /\ r.status = s.status /\ r.current = s.current /\ r.irql = s.irql /\ r.inIsr = s.inIsr
      /\ r.resumeFirst = s.resumeFirst /\ r.idle = s.idle /\ r.forceSwitch = s.forceSwitch
      /\ s.resched => r.resched
      /\ r.irql = PASSIVE_LEVEL => (r = s \/ r.resched)
  BY <1>1, DpcQueueIs
<1>3. r.level = s.level /\ r.isrLine = s.isrLine
  BY <1>1 DEF DpcQueue, Records
<1> HIDE DEF r
<1>4. SameCpu(s, r)
  <2>1. \A c \in Contexts : r.status[c] = s.status[c]
    BY <1>2
  <2>. QED
    BY <1>2, <1>3, <2>1 DEF SameCpu
<1>5. RightOneRuns(r)
  BY <1>1, <1>2, <1>4, RightStays DEF Entered
<1>6. r.irql = PASSIVE_LEVEL /\ ~Left(r) => r.resched
  BY <1>2 DEF Entered
<1>7. Entered(r)
  BY <1>2, <1>5, <1>6 DEF Entered
<1>. QED
  BY <1>2, <1>4, <1>7 DEF r

LEMMA WakeIs ==
  ASSUME NEW s, NEW t \in Threads, Entered(s), s.status[t] \in {"waiting", "ready"}
  PROVE  LET r == Wake(s, t) IN Entered(r) /\ Keeps(s, r) /\ SameCpu(s, r)
<1> DEFINE w == WaitEnds(s, t)
           r == Wake(s, t)
<1>1. Core(s) /\ s \in Records
  BY DEF Entered, Core
<1>2. /\ Core(w) /\ Keeps(s, w) /\ Highest(w) = Highest(s)
      /\ \A c \in Contexts : w.status[c] = IF c = t THEN "ready" ELSE s.status[c]
      /\ w.current = s.current /\ w.irql = s.irql /\ w.inIsr = s.inIsr /\ w.level = s.level
      /\ w.dpcs = s.dpcs /\ w.resched = s.resched
      /\ w.resumeFirst = s.resumeFirst /\ w.idle = s.idle /\ w.forceSwitch = s.forceSwitch
  BY <1>1, WaitEndsIs
<1>3. w.isrLine = s.isrLine
  BY <1>1 DEF WaitEnds, Records
<1>4. PICK due \in BOOLEAN :
        due <=> \/ s.resched
                \/ \E c \in In(s, "ready") \cup {t} : PriorityOf(c) > PriorityOf(s.current)
  OBVIOUS
<1>5. r = [w EXCEPT !.resched = due]
  <2>1. (s.resched \/ \E c \in In(s, "ready") \cup {t} : PriorityOf(c) > PriorityOf(s.current)) = due
    BY <1>4
  <2>2. (w.resched \/ \E c \in In(s, "ready") \cup {t} : PriorityOf(c) > PriorityOf(s.current)) = due
    BY <1>2, <2>1
  <2>. QED
    BY <2>2 DEF Wake
<1> HIDE DEF r, w
<1>6. w \in Records
  BY <1>2 DEF Core
<1>7. r \in Records
  BY <1>5, <1>6 DEF Records
<1>8. /\ r.status = w.status /\ r.current = w.current /\ r.irql = w.irql /\ r.inIsr = w.inIsr
      /\ r.isrSavedIrql = w.isrSavedIrql /\ r.isrInterrupted = w.isrInterrupted
      /\ r.resumeFirst = w.resumeFirst /\ r.inDpc = w.inDpc /\ r.dpcSavedIrql = w.dpcSavedIrql
      /\ r.level = w.level /\ r.idle = w.idle /\ r.forceSwitch = w.forceSwitch
      /\ r.resched = due /\ r.dpcs = w.dpcs /\ r.isrLine = w.isrLine
  BY <1>5, <1>6 DEF Records
<1>9. Core(r) /\ Keeps(w, r) /\ Highest(r) = Highest(w)
  BY <1>2, <1>7, <1>8, CoreSame
<1>10. SameCpu(s, r)
  <2>1. t \in Contexts
    BY ContextsAre
  <2>2. \A c \in Contexts : r.status[c] = s.status[c] \/ (s.status[c] = "waiting" /\ r.status[c] = "ready")
    BY <1>2, <1>8
  <2>. QED
    BY <1>2, <1>3, <1>8, <2>2 DEF SameCpu
<1>11. RightOneRuns(r)
  BY <1>1, <1>2, <1>9, <1>10, RightStays DEF Entered
<1>12. Entered(r)
  BY <1>2, <1>4, <1>8, <1>9, <1>11 DEF Entered, Left
<1>13. Keeps(s, r)
  BY <1>2, <1>9, KeepsTwice
<1>. QED
  BY <1>10, <1>12, <1>13 DEF r

(* An entry that sets flags and no more.                                   *)
LEMMA EnteredFlags ==
  ASSUME NEW s, Entered(s), NEW over \in BOOLEAN, NEW due \in BOOLEAN, s.resched => due,
         NEW r, r = [s EXCEPT !.sliceExpired = over, !.resched = due]
  PROVE  Entered(r) /\ Keeps(s, r) /\ SameCpu(s, r)
<1>1. s \in Records /\ Core(s)
  BY DEF Entered, Core
<1>2. s.interruptFlag \in [Contexts -> BOOLEAN] /\ s.dpcs \in Seq(Dpcs)
  BY <1>1 DEF Records
<1>3. r = FlagsOf(s, over, due, s.interruptFlag, s.dpcs)
  BY <1>1 DEF Records, FlagsOf
<1>4. /\ Core(r) /\ Keeps(s, r) /\ Highest(r) = Highest(s) /\ SameCpu(s, r)
      /\ r.status = s.status /\ r.resched = due /\ r.dpcs = s.dpcs
      /\ r.idle = s.idle /\ r.forceSwitch = s.forceSwitch
  BY <1>1, <1>2, <1>3, FlagsSet
<1>5. RightOneRuns(r)
  BY <1>1, <1>4, RightStays DEF Entered
<1>6. r.irql = s.irql /\ r.inIsr = s.inIsr
  BY <1>4 DEF SameCpu
<1>7. Entered(r)
  BY <1>4, <1>5, <1>6 DEF Entered, Left
<1>. QED
  BY <1>4, <1>7

LEMMA TickIs ==
  ASSUME NEW s, Entered(s), NEW r \in ClockTick(s)
  PROVE  Entered(r) /\ Keeps(s, r) /\ SameCpu(s, r)
<1>1. Core(s) /\ s \in Records /\ s.sliceExpired \in BOOLEAN
  BY DEF Entered, Core, Records
<1>2. CASE r = s
  BY <1>2 DEF Keeps, SameCpu
<1>3. CASE r = SliceEnd(s)
  <2>1. CASE r = s
    BY <2>1, <1>2
  <2>2. CASE r # s
    <3>1. r = [s EXCEPT !.sliceExpired = TRUE, !.resched = TRUE]
      BY <1>3, <2>2 DEF SliceEnd
    <3>. QED
      BY <3>1, EnteredFlags
  <2>. QED
    BY <2>1, <2>2
<1>4. ASSUME NEW d \in Dpcs, r = Timer(s, d)
      PROVE  Entered(r) /\ Keeps(s, r) /\ SameCpu(s, r)
  <2>1. PICK q : q = DpcQueue(s, d)
    OBVIOUS
  <2>2. Entered(q) /\ Keeps(s, q) /\ SameCpu(s, q)
    BY <2>1, QueueIs
  <2>3. r = [q EXCEPT !.resched = TRUE]
    BY <1>4, <2>1 DEF Timer
  <2>4. q \in Records /\ q.sliceExpired \in BOOLEAN
    BY <2>2 DEF Entered, Core, Records
  <2>5. r = [q EXCEPT !.sliceExpired = q.sliceExpired, !.resched = TRUE]
    BY <2>3, <2>4 DEF Records
  <2>6. Entered(r) /\ Keeps(q, r) /\ SameCpu(q, r)
    BY <2>2, <2>4, <2>5, EnteredFlags
  <2>. QED
    BY <2>2, <2>6, KeepsTwice, SameTwice
<1>5. ASSUME NEW t \in In(s, "waiting"), r = Wake(s, t)
      PROVE  Entered(r) /\ Keeps(s, r) /\ SameCpu(s, r)
  BY <1>1, <1>5, WaitingIsThread, WakeIs
<1>. QED
  BY <1>2, <1>3, <1>4, <1>5 DEF ClockTick

(* The code that runs is the one at DISPATCH_LEVEL or above, if any is.    *)
LEMMA RunnerIs ==
  ASSUME NEW s, Core(s), RightOneRuns(s), s.current # IsrThread
  PROVE  /\ ~s.inIsr /\ \A c \in Highest(s) : c = s.current
         /\ s.resumeFirst = NoThread /\ Base(s) = s.irql
         /\ s.irql = PASSIVE_LEVEL => Highest(s) = {}
<1>1. ~s.inIsr /\ \A c \in Highest(s) : c = s.current
  BY DEF RightOneRuns
<1>2. s.resumeFirst = NoThread
  BY DEF Core, HeldFor
<1>3. Base(s) = s.irql
  BY <1>1 DEF Base
<1>4. s.irql = PASSIVE_LEVEL => Highest(s) = {}
  <2>1. \A c \in Highest(s) : s.level[c] # PASSIVE_LEVEL
    BY DEF Highest, High
  <2>. QED
    BY <1>3, <2>1 DEF Core, OneHigh
<1>. QED
  BY <1>1, <1>2, <1>3, <1>4

(* What is held keeps its level, the code that runs aside.                 *)
KeepsOthers(s, r) ==
  \A c \in Contexts \ {IsrThread, s.current} :
    s.status[c] # "suspended" => r.status[c] # "suspended" /\ r.level[c] = s.level[c]

LEMMA SetIrqlIs ==
  ASSUME NEW s, Core(s), RightOneRuns(s), s.current # IsrThread, NEW n \in Irqls,
         n = PASSIVE_LEVEL => s.current \in Threads,
         NEW r, r = SetIrql(s, n)
  PROVE  /\ Core(r) /\ RightOneRuns(r) /\ KeepsOthers(s, r)
         /\ r.irql = n /\ r.dpcs = s.dpcs /\ r.resched = s.resched /\ r.idle = s.idle
         /\ r.forceSwitch = s.forceSwitch /\ r.inIsr = s.inIsr /\ r.status = s.status
         /\ r.current = s.current
<1> DEFINE cur == s.current
<1>1. s \in Records /\ cur \in Contexts /\ s.status[cur] = "running"
  BY DEF Core, Records, RightOneRuns
<1>2. PICK level \in [Contexts -> Irqls] : level = [s.level EXCEPT ![cur] = n]
  BY <1>1 DEF Records
<1>3. r = [s EXCEPT !.irql = n, !.level = level]
  BY <1>2 DEF SetIrql
<1>4. r \in Records
  BY <1>1, <1>2, <1>3 DEF Records
<1>5. /\ r.status = s.status /\ r.current = s.current /\ r.irql = n /\ r.inIsr = s.inIsr
      /\ r.isrSavedIrql = s.isrSavedIrql /\ r.isrInterrupted = s.isrInterrupted
      /\ r.resumeFirst = s.resumeFirst /\ r.inDpc = s.inDpc /\ r.dpcSavedIrql = s.dpcSavedIrql
      /\ r.level = level /\ r.dpcs = s.dpcs /\ r.resched = s.resched
      /\ r.forceSwitch = s.forceSwitch /\ r.idle = s.idle
  BY <1>1, <1>3 DEF Records
<1>6. \A c \in Contexts : r.level[c] = IF c = cur THEN n ELSE s.level[c]
  BY <1>1, <1>2, <1>5 DEF Records
<1>7. ~s.inIsr /\ (\A c \in Highest(s) : c = cur) /\ s.resumeFirst = NoThread
  BY RunnerIs
<1>8. \A c \in Highest(r) : c = cur
  BY <1>5, <1>6, <1>7 DEF Highest, High
<1>9. KeepsOthers(s, r)
  BY <1>5, <1>6 DEF KeepsOthers
<1>10. ThreadsOk(r)
  BY <1>1, <1>5, <1>6, ContextsAre DEF Core, ThreadsOk
<1>11. RunsAlone(r)
  BY <1>5 DEF Core, RunsAlone
<1>12. KernelThreadsOk(r)
  BY <1>5, <1>6, ContextsAre DEF Core, KernelThreadsOk
<1>13. OneHigh(r)
  <2>1. Base(r) = n
    BY <1>5, <1>7 DEF Base
  <2>2. \A c \in Highest(r) : r.level[c] = n
    BY <1>6, <1>8 DEF Highest
  <2>3. n # PASSIVE_LEVEL => cur \in Highest(r)
    BY <1>1, <1>5, <1>6 DEF Highest, High
  <2>. QED
    BY <1>8, <2>1, <2>2, <2>3 DEF OneHigh
<1>14. IsrLevel(r) /\ HeldFor(r)
  BY <1>5, <1>7 DEF IsrLevel, HeldFor
<1>15. RightOneRuns(r)
  BY <1>1, <1>5, <1>7, <1>8 DEF RightOneRuns
<1>16. Core(r)
  BY <1>4, <1>10, <1>11, <1>12, <1>13, <1>14 DEF Core
<1>. QED
  BY <1>5, <1>9, <1>15, <1>16

LEMMA OthersFirst ==
  ASSUME NEW s, NEW r, NEW q, Keeps(s, r), KeepsOthers(r, q), r.current = s.current
  PROVE  KeepsOthers(s, q)
BY DEF Keeps, KeepsOthers

LEMMA OthersThen ==
  ASSUME NEW s, NEW r, NEW q, KeepsOthers(s, r), Keeps(r, q)
  PROVE  KeepsOthers(s, q)
BY DEF Keeps, KeepsOthers

LEMMA KeepsIsOthers ==
  ASSUME NEW s, NEW r, Keeps(s, r)
  PROVE  KeepsOthers(s, r)
BY DEF Keeps, KeepsOthers

LEMMA EnteredEnds ==
  ASSUME NEW s, Entered(s)
  PROVE  AtEnd(s)
BY DEF Entered, AtEnd, RightOneRuns

-----------------------------------------------------------------------------
(* What the routines and the waits do, in an entry.                        *)
LEMMA LowerIs ==
  ASSUME NEW s, Entered(s), s.current # IsrThread, NEW n \in Irqls,
         n = PASSIVE_LEVEL => s.current \in Threads,
         NEW r, r = LowerInKernel(s, n)
  PROVE  AtEnd(r) /\ KeepsOthers(s, r)
<1>1. PICK q : q = SetIrql(s, n)
  OBVIOUS
<1>2. /\ Core(q) /\ RightOneRuns(q) /\ KeepsOthers(s, q)
      /\ q.irql = n /\ q.dpcs = s.dpcs /\ q.resched = s.resched /\ q.idle = s.idle
      /\ q.forceSwitch = s.forceSwitch /\ q.inIsr = s.inIsr /\ q.status = s.status
      /\ q.current = s.current
  BY <1>1, SetIrqlIs DEF Entered
<1>3. PICK due \in BOOLEAN : due <=> (s.resched \/ (n < DISPATCH_LEVEL /\ s.dpcs # << >>))
  OBVIOUS
<1>4. r = [q EXCEPT !.resched = due]
  <2>1. (q.resched \/ (n < DISPATCH_LEVEL /\ s.dpcs # << >>)) = due
    BY <1>2, <1>3
  <2>. QED
    BY <1>1, <2>1 DEF LowerInKernel
<1>5. q \in Records
  BY <1>2 DEF Core
<1>6. r \in Records
  BY <1>4, <1>5 DEF Records
<1>7. /\ r.status = q.status /\ r.current = q.current /\ r.irql = q.irql /\ r.inIsr = q.inIsr
      /\ r.isrSavedIrql = q.isrSavedIrql /\ r.isrInterrupted = q.isrInterrupted
      /\ r.resumeFirst = q.resumeFirst /\ r.inDpc = q.inDpc /\ r.dpcSavedIrql = q.dpcSavedIrql
      /\ r.level = q.level /\ r.dpcs = q.dpcs /\ r.resched = due
      /\ r.forceSwitch = q.forceSwitch /\ r.idle = q.idle
  BY <1>4, <1>5 DEF Records
<1>8. Core(r) /\ Keeps(q, r) /\ Highest(r) = Highest(q)
  BY <1>2, <1>6, <1>7, CoreSame
<1>9. RightOneRuns(r)
  BY <1>2, <1>7, <1>8 DEF RightOneRuns
<1>10. r.irql = PASSIVE_LEVEL /\ ~Left(r) => r.resched
  <2>1. PASSIVE_LEVEL < DISPATCH_LEVEL
    BY DEF PASSIVE_LEVEL, DISPATCH_LEVEL
  <2>2. ~Left(r) => s.dpcs # << >>
    BY <1>2, <1>7, EmptyLeft
  <2>. QED
    BY <1>2, <1>3, <1>7, <2>1, <2>2
<1>11. Entered(r)
  BY <1>2, <1>7, <1>8, <1>9, <1>10 DEF Entered
<1>. QED
  BY <1>2, <1>8, <1>11, EnteredEnds, OthersThen

LEMMA RaiseIs ==
  ASSUME NEW s, Entered(s), s.current # IsrThread, NEW n \in Irqls, n # PASSIVE_LEVEL,
         NEW r, r = SetIrql(s, n)
  PROVE  AtEnd(r) /\ KeepsOthers(s, r)
<1>1. /\ Core(r) /\ RightOneRuns(r) /\ KeepsOthers(s, r)
      /\ r.irql = n /\ r.idle = s.idle /\ r.forceSwitch = s.forceSwitch /\ r.inIsr = s.inIsr
  BY SetIrqlIs DEF Entered
<1>2. Entered(r)
  BY <1>1 DEF Entered
<1>. QED
  BY <1>1, <1>2, EnteredEnds

LEMMA UnqueueIs ==
  ASSUME NEW s, Entered(s), NEW d \in Dpcs, NEW r, r = DpcUnqueue(s, d)
  PROVE  AtEnd(r) /\ Keeps(s, r)
<1>1. s \in Records /\ Core(s)
  BY DEF Entered, Core
<1>2. /\ s.dpcs \in Seq(Dpcs) /\ s.interruptFlag \in [Contexts -> BOOLEAN]
      /\ s.sliceExpired \in BOOLEAN /\ s.resched \in BOOLEAN
  BY <1>1 DEF Records
<1>3. PICK queue \in Seq(Dpcs) :
        queue = Without(s.dpcs, d) /\ \A e : Contains(queue, e) => Contains(s.dpcs, e)
  BY <1>2, WithoutIs
<1>4. r = FlagsOf(s, s.sliceExpired, s.resched, s.interruptFlag, queue)
  BY <1>1, <1>3 DEF DpcUnqueue, FlagsOf, Records
<1>5. /\ Core(r) /\ Keeps(s, r) /\ Highest(r) = Highest(s) /\ SameCpu(s, r)
      /\ r.status = s.status /\ r.resched = s.resched /\ r.dpcs = queue
      /\ r.idle = s.idle /\ r.forceSwitch = s.forceSwitch
  BY <1>1, <1>2, <1>4, FlagsSet
<1>6. RightOneRuns(r)
  BY <1>1, <1>5, RightStays DEF Entered
<1>7. r.irql = s.irql /\ r.inIsr = s.inIsr
  BY <1>5 DEF SameCpu
<1>8. Left(s) => Left(r)
  BY <1>3, <1>5 DEF Left
<1>9. Entered(r)
  BY <1>5, <1>6, <1>7, <1>8 DEF Entered
<1>. QED
  BY <1>5, <1>9, EnteredEnds

LEMMA FlagIs ==
  ASSUME NEW s, Entered(s), NEW t \in Threads, NEW on \in BOOLEAN,
         NEW r, r = [s EXCEPT !.interruptFlag[t] = on]
  PROVE  AtEnd(r) /\ Keeps(s, r)
<1>1. s \in Records /\ Core(s)
  BY DEF Entered, Core
<1>2. /\ s.dpcs \in Seq(Dpcs) /\ s.interruptFlag \in [Contexts -> BOOLEAN]
      /\ s.sliceExpired \in BOOLEAN /\ s.resched \in BOOLEAN
  BY <1>1 DEF Records
<1>3. PICK flag \in [Contexts -> BOOLEAN] : flag = [s.interruptFlag EXCEPT ![t] = on]
  BY <1>2
<1>4. r = FlagsOf(s, s.sliceExpired, s.resched, flag, s.dpcs)
  BY <1>1, <1>3 DEF FlagsOf, Records
<1>5. PICK q : q = r
  OBVIOUS
<1>6. /\ Core(q) /\ Keeps(s, q) /\ Highest(q) = Highest(s) /\ SameCpu(s, q)
      /\ q.status = s.status /\ q.resched = s.resched /\ q.dpcs = s.dpcs
      /\ q.idle = s.idle /\ q.forceSwitch = s.forceSwitch
  BY <1>1, <1>2, <1>4, <1>5, FlagsSet
<1>7. RightOneRuns(q)
  BY <1>1, <1>6, RightStays DEF Entered
<1>8. q.irql = s.irql /\ q.inIsr = s.inIsr
  BY <1>6 DEF SameCpu
<1>9. Entered(q)
  BY <1>6, <1>7, <1>8 DEF Entered, Left
<1>. QED
  BY <1>5, <1>6, <1>9, EnteredEnds

(* A thread at PASSIVE_LEVEL waits: nothing is held off below it.          *)
LEMMA WaitIs ==
  ASSUME NEW s, Entered(s), s.current \in Threads, s.irql = PASSIVE_LEVEL,
         NEW r, r = [s EXCEPT !.status[s.current] = "waiting", !.resched = TRUE]
  PROVE  AtEnd(r) /\ KeepsOthers(s, r)
<1> DEFINE cur == s.current
<1>1. s \in Records /\ Core(s) /\ cur \in Contexts /\ s.status[cur] = "running"
  BY DEF Entered, Core, Records, RightOneRuns
<1>2. PICK status \in [Contexts -> Statuses] : status = [s.status EXCEPT ![cur] = "waiting"]
  BY <1>1 DEF Records, Statuses
<1>3. r = [s EXCEPT !.status = status, !.resched = TRUE]
  BY <1>2
<1>4. PICK q : q = r
  OBVIOUS
<1>5. q \in Records
  BY <1>1, <1>2, <1>3, <1>4 DEF Records
<1>6. /\ q.status = status /\ q.current = s.current /\ q.irql = s.irql /\ q.inIsr = s.inIsr
      /\ q.isrSavedIrql = s.isrSavedIrql /\ q.isrInterrupted = s.isrInterrupted
      /\ q.resumeFirst = s.resumeFirst /\ q.inDpc = s.inDpc /\ q.dpcSavedIrql = s.dpcSavedIrql
      /\ q.level = s.level /\ q.resched /\ q.idle = s.idle
  BY <1>1, <1>3, <1>4 DEF Records
<1>7. \A c \in Contexts : q.status[c] = IF c = cur THEN "waiting" ELSE s.status[c]
  BY <1>1, <1>2, <1>6 DEF Records
<1>8. /\ ~s.inIsr /\ Highest(s) = {} /\ s.resumeFirst = NoThread /\ cur # IsrThread
      /\ cur # DpcThread
  <2>1. cur # IsrThread /\ cur # DpcThread
    BY ContextsAre
  <2>. QED
    BY <2>1, RunnerIs DEF Entered
<1>9. s.level[cur] = PASSIVE_LEVEL
  BY <1>1, <1>8 DEF Highest, High
<1>10. Highest(q) = {}
  BY <1>6, <1>7, <1>8, <1>9 DEF Highest, High
<1>11. KeepsOthers(s, q)
  BY <1>6, <1>7 DEF KeepsOthers
<1>12. ThreadsOk(q)
  BY <1>1, <1>6, <1>7, <1>9, ContextsAre DEF Core, ThreadsOk
<1>13. RunsAlone(q)
  BY <1>1, <1>6, <1>7 DEF Core, RunsAlone
<1>14. KernelThreadsOk(q)
  BY <1>1, <1>6, <1>7, <1>8, ContextsAre DEF Core, KernelThreadsOk
<1>15. OneHigh(q)
  BY <1>1, <1>6, <1>8, <1>10 DEF Core, OneHigh, Base
<1>16. IsrLevel(q) /\ HeldFor(q)
  BY <1>6, <1>8, <1>10 DEF IsrLevel, HeldFor
<1>17. Core(q)
  BY <1>5, <1>12, <1>13, <1>14, <1>15, <1>16 DEF Core
<1>18. q.status[q.current] # "running"
  BY <1>1, <1>6, <1>7
<1>19. AtEnd(q)
  BY <1>6, <1>8, <1>10, <1>17, <1>18 DEF AtEnd, Entered
<1>. QED
  BY <1>4, <1>11, <1>19

(* A DPC routine returns to what it interrupted, at PASSIVE_LEVEL.         *)
LEMMA DpcReturnIs ==
  ASSUME NEW s, Entered(s), s.current = DpcThread, NEW r, r = DpcReturn(s)
  PROVE  AtEnd(r) /\ KeepsOthers(s, r)
<1>1. s \in Records /\ Core(s) /\ s.status[DpcThread] = "running" /\ s.dpcSavedIrql \in Irqls
  BY DEF Entered, Core, Records, RightOneRuns
<1>2. PICK status \in [Contexts -> Statuses] : status = [s.status EXCEPT ![DpcThread] = "suspended"]
  BY <1>1 DEF Records, Statuses
<1>3. r = [s EXCEPT !.inDpc = FALSE, !.irql = s.dpcSavedIrql, !.status = status, !.resched = TRUE]
  BY <1>2 DEF DpcReturn
<1>4. r \in Records
  BY <1>1, <1>2, <1>3 DEF Records
<1>5. /\ r.status = status /\ r.current = s.current /\ r.irql = s.dpcSavedIrql /\ r.inIsr = s.inIsr
      /\ r.isrSavedIrql = s.isrSavedIrql /\ r.isrInterrupted = s.isrInterrupted
      /\ r.resumeFirst = s.resumeFirst /\ ~r.inDpc /\ r.dpcSavedIrql = s.dpcSavedIrql
      /\ r.level = s.level /\ r.resched /\ r.idle = s.idle
  BY <1>1, <1>3 DEF Records
<1>6. \A c \in Contexts : r.status[c] = IF c = DpcThread THEN "suspended" ELSE s.status[c]
  BY <1>1, <1>2, <1>5 DEF Records
<1>7. /\ ~s.inIsr /\ (\A c \in Highest(s) : c = DpcThread) /\ s.resumeFirst = NoThread
      /\ DpcThread # IsrThread
  BY RunnerIs, ContextsAre DEF Entered
<1>8. s.dpcSavedIrql = PASSIVE_LEVEL
  BY <1>1 DEF Core, KernelThreadsOk
<1>9. Highest(r) = {}
  BY <1>5, <1>6, <1>7 DEF Highest, High
<1>10. KeepsOthers(s, r)
  BY <1>5, <1>6 DEF KeepsOthers
<1>11. ThreadsOk(r)
  BY <1>1, <1>5, <1>6, ContextsAre DEF Core, ThreadsOk
<1>12. RunsAlone(r)
  BY <1>1, <1>5, <1>6 DEF Core, RunsAlone
<1>13. KernelThreadsOk(r)
  BY <1>1, <1>5, <1>6, ContextsAre DEF Core, KernelThreadsOk
<1>14. OneHigh(r)
  BY <1>5, <1>7, <1>8, <1>9 DEF OneHigh, Base
<1>15. IsrLevel(r) /\ HeldFor(r)
  BY <1>5, <1>7, <1>9 DEF IsrLevel, HeldFor
<1>16. Core(r)
  BY <1>4, <1>11, <1>12, <1>13, <1>14, <1>15 DEF Core
<1>17. r.status[r.current] # "running"
  BY <1>5, <1>6, ContextsAre
<1>18. AtEnd(r)
  BY <1>5, <1>7, <1>9, <1>16, <1>17 DEF AtEnd, Entered
<1>. QED
  BY <1>10, <1>18

(* An ISR returns to what it interrupted, which goes on first if it was at *)
(* DISPATCH_LEVEL or above.                                                *)
LEMMA IntrReturnIs ==
  ASSUME NEW s, Entered(s), s.current = IsrThread, NEW r, r = IntrReturn(s)
  PROVE  AtEnd(r) /\ Keeps(s, r)
<1>1. s \in Records /\ Core(s) /\ s.status[IsrThread] = "running" /\ s.isrSavedIrql \in Irqls
  BY DEF Entered, Core, Records, RightOneRuns
<1>2. s.inIsr
  BY <1>1 DEF Core, KernelThreadsOk
<1>3. PICK status \in [Contexts -> Statuses] : status = [s.status EXCEPT ![IsrThread] = "suspended"]
  BY <1>1 DEF Records, Statuses
<1>4. PICK first \in Contexts \cup {NoThread} :
        first = IF /\ s.isrSavedIrql >= DISPATCH_LEVEL
                   /\ s.isrInterrupted \in In(s, "ready")
                  THEN s.isrInterrupted ELSE s.resumeFirst
  BY <1>1 DEF Records
<1>5. r = [s EXCEPT !.inIsr = FALSE, !.irql = s.isrSavedIrql, !.status = status,
                    !.resumeFirst = first, !.isrInterrupted = NoThread, !.resched = TRUE]
  BY <1>3, <1>4 DEF IntrReturn
<1>6. r \in Records
  BY <1>1, <1>3, <1>4, <1>5 DEF Records
<1>7. /\ r.status = status /\ r.current = s.current /\ r.irql = s.isrSavedIrql /\ ~r.inIsr
      /\ r.isrInterrupted = NoThread
      /\ r.resumeFirst = first /\ r.inDpc = s.inDpc /\ r.dpcSavedIrql = s.dpcSavedIrql
      /\ r.level = s.level /\ r.resched /\ r.idle = s.idle
  BY <1>1, <1>5 DEF Records
<1>8. \A c \in Contexts : r.status[c] = IF c = IsrThread THEN "suspended" ELSE s.status[c]
  BY <1>1, <1>3, <1>7 DEF Records
<1>9. Highest(r) = Highest(s)
  BY <1>7, <1>8 DEF Highest, High
<1>10. Base(r) = Base(s) /\ Base(s) = s.isrSavedIrql
  BY <1>2, <1>7 DEF Base
<1>11. Keeps(s, r)
  BY <1>7, <1>8 DEF Keeps
<1>12. ThreadsOk(r)
  BY <1>1, <1>7, <1>8, ContextsAre DEF Core, ThreadsOk
<1>13. RunsAlone(r)
  BY <1>1, <1>7, <1>8 DEF Core, RunsAlone
<1>14. KernelThreadsOk(r)
  BY <1>1, <1>7, <1>8, ContextsAre DEF Core, KernelThreadsOk
<1>15. OneHigh(r)
  BY <1>1, <1>7, <1>9, <1>10 DEF Core, OneHigh
<1>16. IsrLevel(r)
  BY <1>7 DEF IsrLevel
<1>17. ASSUME NEW c \in Highest(s)
       PROVE  s.status[c] = "ready" /\ c \in Contexts /\ c # IsrThread /\ s.isrSavedIrql >= DISPATCH_LEVEL
  <2>1. c \in Contexts /\ c # IsrThread /\ s.status[c] # "suspended" /\ s.level[c] # PASSIVE_LEVEL
    BY DEF Highest, High
  <2>2. s.status[c] # "running"
    BY <1>1, <2>1 DEF Core, RunsAlone
  <2>3. s.status[c] # "waiting"
    BY <1>1, <2>1, ContextsAre DEF Core, ThreadsOk, KernelThreadsOk
  <2>4. s.status[c] \in Statuses
    BY <1>1, <2>1 DEF Records
  <2>5. s.isrSavedIrql # PASSIVE_LEVEL
    BY <1>1, <1>10, <2>1 DEF Core, OneHigh
  <2>6. s.isrSavedIrql >= DISPATCH_LEVEL
    BY <1>1, <2>5, LevelsAre
  <2>. QED
    BY <2>1, <2>2, <2>3, <2>4, <2>6 DEF Statuses
<1>18. \A c \in Highest(s) : c = first
  <2> SUFFICES ASSUME NEW c \in Highest(s) PROVE c = first
    OBVIOUS
  <2>1. c \in {s.isrInterrupted, s.resumeFirst}
    BY <1>1, <1>2 DEF Core, HeldFor
  <2>2. CASE c = s.isrInterrupted
    BY <1>4, <1>17, <2>2 DEF In
  <2>3. CASE c = s.resumeFirst
    <3>1. s.isrInterrupted = NoThread
      BY <1>1, <1>2, <1>17, <2>3, ContextsAre DEF Core, HeldFor
    <3>2. s.isrInterrupted \notin In(s, "ready")
      BY <3>1, ContextsAre DEF In
    <3>. QED
      BY <1>4, <2>3, <3>2
  <2>. QED
    BY <2>1, <2>2, <2>3
<1>19. first # NoThread => first \in Highest(s)
  <2>1. CASE /\ s.isrSavedIrql >= DISPATCH_LEVEL
             /\ s.isrInterrupted \in In(s, "ready")
    <3>1. Base(s) # PASSIVE_LEVEL
      BY <1>10, <2>1 DEF PASSIVE_LEVEL, DISPATCH_LEVEL
    <3>. QED
      BY <1>1, <1>18, <3>1 DEF Core, OneHigh
  <2>2. CASE ~ /\ s.isrSavedIrql >= DISPATCH_LEVEL
               /\ s.isrInterrupted \in In(s, "ready")
    BY <1>1, <1>4, <2>2 DEF Core, HeldFor
  <2>. QED
    BY <2>1, <2>2
<1>20. HeldFor(r)
  BY <1>7, <1>8, <1>9, <1>17, <1>19 DEF HeldFor
<1>21. Core(r)
  BY <1>6, <1>12, <1>13, <1>14, <1>15, <1>16, <1>20 DEF Core
<1>22. r.status[r.current] # "running"
  BY <1>7, <1>8, ContextsAre
<1>23. AtEnd(r)
  BY <1>7, <1>9, <1>18, <1>21, <1>22 DEF AtEnd, Entered
<1>. QED
  BY <1>11, <1>23

-----------------------------------------------------------------------------
(***************************************************************************)
(* The steps.                                                              *)
(***************************************************************************)
TypesOk == priority \in Priorities /\ lines \subseteq Lines

(* An entry, after its look at the clock.                                  *)
LEMMA EntryIs ==
  ASSUME TypesOk, NEW s, NEW r, NEW q, NEW x \in SysOpEnd(q),
         Keeps(s, r), r.current = s.current, KeepsOthers(r, q), AtEnd(q)
  PROVE  Between(x) /\ KeepsOthers(s, x)
<1>1. Between(x) /\ Keeps(q, x)
  BY SysOpEndIs DEF TypesOk
<1>. QED
  BY <1>1, OthersFirst, OthersThen

LEMMA EnteredNow ==
  ASSUME NEW s, Between(s), ~s.idle
  PROVE  Entered(s)
BY DEF Between, Entered

(* A context that runs, and what the look at the clock leaves of it.       *)
LEMMA Looked ==
  ASSUME Between(k), NEW c, Running(c), NEW s \in ClockTick(k)
  PROVE  /\ Entered(s) /\ Keeps(k, s) /\ s.current = c /\ s.irql = k.irql
         /\ s.current = k.current
         /\ \A t \in In(k, "waiting") : t \in Threads /\ s.status[t] \in {"waiting", "ready"}
<1>1. Entered(k) /\ k.current = c
  BY EnteredNow DEF Running
<1>2. Entered(s) /\ Keeps(k, s) /\ SameCpu(k, s)
  BY <1>1, TickIs
<1>3. \A t \in In(k, "waiting") : t \in Threads /\ t \in Contexts /\ k.status[t] = "waiting"
  BY <1>1, WaitingIsThread DEF Entered, In
<1>. QED
  BY <1>1, <1>2, <1>3 DEF SameCpu

Kept == Between(k') /\ KeepsOthers(k, k')

LEMMA RaiseKeeps ==
  ASSUME TypesOk, Between(k), NEW c, c # IsrThread, NEW n, KfRaiseIrql(c, n)
  PROVE  Kept
<1>1. Running(c) /\ n \in Irqls /\ n # PASSIVE_LEVEL
  BY LevelsAre DEF KfRaiseIrql, InCode, PASSIVE_LEVEL, DISPATCH_LEVEL, HIGH_LEVEL
<1>2. CASE k' = SetIrql(k, n)
  <2>1. Core(k) /\ RightOneRuns(k) /\ k.current # IsrThread
    BY <1>1 DEF Running, Between
  <2>2. /\ Core(k') /\ RightOneRuns(k') /\ KeepsOthers(k, k')
        /\ k'.irql = n /\ k'.idle = k.idle /\ k'.forceSwitch = k.forceSwitch /\ k'.inIsr = k.inIsr
    BY <1>1, <1>2, <2>1, SetIrqlIs
  <2>. QED
    BY <1>1, <2>2 DEF Kept, Between, Running
<1>3. CASE \E s \in ClockTick(k) : k' \in SysOpEnd(SetIrql(s, n))
  <2>1. PICK s \in ClockTick(k) : k' \in SysOpEnd(SetIrql(s, n))
    BY <1>3
  <2>2. Entered(s) /\ Keeps(k, s) /\ s.current = c /\ s.current = k.current
    BY <1>1, Looked
  <2>3. AtEnd(SetIrql(s, n)) /\ KeepsOthers(s, SetIrql(s, n))
    BY <1>1, <2>2, RaiseIs
  <2>. QED
    BY <2>1, <2>2, <2>3, EntryIs DEF Kept
<1>. QED
  BY <1>2, <1>3 DEF KfRaiseIrql

LEMMA LowerKeeps ==
  ASSUME TypesOk, Between(k), NEW c, c # IsrThread, NEW n \in Irqls,
         n = PASSIVE_LEVEL => c \in Threads, KfLowerIrql(c, n)
  PROVE  Kept
<1>1. Running(c)
  BY DEF KfLowerIrql, Lowers, InCode
<1>2. PICK s \in ClockTick(k) : k' \in SysOpEnd(LowerInKernel(s, n))
  BY DEF KfLowerIrql
<1>3. Entered(s) /\ Keeps(k, s) /\ s.current = c /\ s.current = k.current
  BY <1>1, <1>2, Looked
<1>4. AtEnd(LowerInKernel(s, n)) /\ KeepsOthers(s, LowerInKernel(s, n))
  BY <1>3, LowerIs
<1>. QED
  BY <1>2, <1>3, <1>4, EntryIs DEF Kept

(* A lowering in guest code has seen the queue empty: what is in it now    *)
(* came after its look.                                                    *)
LoweringOk == lowering # {} => Left(k)

LEMMA WriteKeeps ==
  ASSUME Between(k), LoweringOk, NEW t \in Threads, LowerWrites(t)
  PROVE  Kept
<1>1. Running(t) /\ Left(k)
  BY DEF LowerWrites, LoweringOk
<1>2. k' = SetIrql(k, PASSIVE_LEVEL)
  BY ContextsAre DEF LowerWrites, BaseIrql
<1>3. Core(k) /\ RightOneRuns(k) /\ k.current = t /\ t # IsrThread
  BY <1>1, ContextsAre DEF Running, Between
<1>4. /\ Core(k') /\ RightOneRuns(k') /\ KeepsOthers(k, k')
      /\ k'.irql = PASSIVE_LEVEL /\ k'.dpcs = k.dpcs
      /\ k'.idle = k.idle /\ k'.forceSwitch = k.forceSwitch /\ k'.inIsr = k.inIsr
  BY <1>2, <1>3, SetIrqlIs, LevelsAre
<1>5. Left(k')
  BY <1>1, <1>4 DEF Left
<1>. QED
  BY <1>1, <1>4, <1>5 DEF Kept, Between, Running

LEMMA KeptSame ==
  ASSUME Between(k), k' = k
  PROVE  Kept
BY DEF Kept, KeepsOthers

LEMMA InsertKeeps ==
  ASSUME TypesOk, Between(k), NEW c, NEW d \in Dpcs, KeInsertQueueDpc(c, d)
  PROVE  Kept
<1>1. Running(c)
  BY DEF KeInsertQueueDpc, InCode
<1>2. PICK s \in ClockTick(k) : k' \in SysOpEnd(DpcQueue(s, d))
  BY DEF KeInsertQueueDpc
<1>3. Entered(s) /\ Keeps(k, s) /\ s.current = k.current
  BY <1>1, Looked
<1>4. AtEnd(DpcQueue(s, d)) /\ KeepsOthers(s, DpcQueue(s, d))
  BY <1>3, QueueIs, EnteredEnds, KeepsIsOthers
<1>. QED
  BY <1>2, <1>3, <1>4, EntryIs DEF Kept

LEMMA SetEventKeeps ==
  ASSUME TypesOk, Between(k), NEW c, NEW t, KeSetEvent(c, t)
  PROVE  Kept
<1>1. Running(c) /\ t \in In(k, "waiting")
  BY DEF KeSetEvent, InCode
<1>2. PICK s \in ClockTick(k) : k' \in SysOpEnd(Wake(s, t))
  BY DEF KeSetEvent
<1>3. /\ Entered(s) /\ Keeps(k, s) /\ s.current = k.current
      /\ t \in Threads /\ s.status[t] \in {"waiting", "ready"}
  BY <1>1, Looked
<1>4. AtEnd(Wake(s, t)) /\ KeepsOthers(s, Wake(s, t))
  BY <1>3, WakeIs, EnteredEnds, KeepsIsOthers
<1>. QED
  BY <1>2, <1>3, <1>4, EntryIs DEF Kept

LEMMA ThreadKeeps ==
  ASSUME TypesOk, Between(k), LoweringOk, NEW t \in Threads, Thread(t)
  PROVE  Kept
<1>1. t # IsrThread
  BY ContextsAre
<1>2. ASSUME NEW n \in {DISPATCH_LEVEL, HIGH_LEVEL}, KfRaiseIrql(t, n) PROVE Kept
  BY <1>1, <1>2, RaiseKeeps
<1>3. ASSUME NEW n \in {PASSIVE_LEVEL, DISPATCH_LEVEL}, KfLowerIrql(t, n) PROVE Kept
  BY <1>1, <1>3, LowerKeeps, LevelsAre
<1>4. ASSUME NEW on \in BOOLEAN, SetInterruptFlag(t, on) PROVE Kept
  <2>1. PICK q : q = [k EXCEPT !.interruptFlag[t] = on]
    OBVIOUS
  <2>2. Entered(k) /\ k' \in SysOpEnd(q)
    BY <1>4, <2>1, EnteredNow DEF SetInterruptFlag, AtBase, InCode, Running
  <2>3. AtEnd(q) /\ Keeps(k, q)
    BY <2>1, <2>2, FlagIs
  <2>4. Keeps(k, k)
    BY DEF Keeps
  <2>. QED
    BY <2>2, <2>3, <2>4, EntryIs, KeepsIsOthers DEF Kept
<1>5. ASSUME NEW d \in Dpcs, KeInsertQueueDpc(t, d) PROVE Kept
  BY <1>5, InsertKeeps
<1>6. ASSUME NEW d \in Dpcs, KeRemoveQueueDpc(t, d) PROVE Kept
  <2>1. Running(t)
    BY <1>6 DEF KeRemoveQueueDpc, InCode
  <2>2. PICK s \in ClockTick(k) : k' \in SysOpEnd(DpcUnqueue(s, d))
    BY <1>6 DEF KeRemoveQueueDpc
  <2>3. Entered(s) /\ Keeps(k, s) /\ s.current = k.current
    BY <2>1, Looked
  <2>4. AtEnd(DpcUnqueue(s, d)) /\ KeepsOthers(s, DpcUnqueue(s, d))
    BY <2>3, UnqueueIs, KeepsIsOthers
  <2>. QED
    BY <2>2, <2>3, <2>4, EntryIs DEF Kept
<1>7. ASSUME NEW u \in Threads, KeSetEvent(t, u) PROVE Kept
  BY <1>7, SetEventKeeps
<1>8. ASSUME AtBase(t) PROVE k.irql = PASSIVE_LEVEL
  BY <1>8, ContextsAre DEF AtBase, BaseIrql
<1>9. CASE Wait(t)
  <2>1. Running(t) /\ AtBase(t)
    BY <1>9 DEF Wait, AtBase, InCode
  <2>2. PICK s \in ClockTick(k) :
          k' \in SysOpEnd([s EXCEPT !.status[t] = "waiting", !.resched = TRUE])
    BY <1>9 DEF Wait
  <2>3. Entered(s) /\ Keeps(k, s) /\ s.current = t /\ s.irql = k.irql /\ s.current = k.current
    BY <2>1, Looked
  <2>4. PICK q : q = [s EXCEPT !.status[s.current] = "waiting", !.resched = TRUE]
    OBVIOUS
  <2>5. k' \in SysOpEnd(q)
    BY <2>2, <2>3, <2>4
  <2>6. AtEnd(q) /\ KeepsOthers(s, q)
    BY <1>8, <2>1, <2>3, <2>4, WaitIs
  <2>. QED
    BY <2>3, <2>5, <2>6, EntryIs DEF Kept
<1>10. CASE NtYieldExecution(t)
  <2>1. Running(t)
    BY <1>10 DEF NtYieldExecution, AtBase, InCode
  <2>2. PICK s \in ClockTick(k) :
          k' \in SysOpEnd([s EXCEPT !.sliceExpired = TRUE, !.resched = TRUE])
    BY <1>10 DEF NtYieldExecution
  <2>3. Entered(s) /\ Keeps(k, s) /\ s.current = k.current
    BY <2>1, Looked
  <2>4. PICK q : q = [s EXCEPT !.sliceExpired = TRUE, !.resched = TRUE]
    OBVIOUS
  <2>5. Entered(q) /\ Keeps(s, q)
    BY <2>3, <2>4, EnteredFlags
  <2>6. AtEnd(q) /\ KeepsOthers(s, q) /\ k' \in SysOpEnd(q)
    BY <2>2, <2>4, <2>5, EnteredEnds, KeepsIsOthers
  <2>. QED
    BY <2>3, <2>6, EntryIs DEF Kept
<1>11. CASE LowerLooks(t, PASSIVE_LEVEL)
  BY <1>11, KeptSame DEF LowerLooks
<1>12. CASE LowerWrites(t)
  BY <1>12, WriteKeeps
<1>. QED
  BY <1>2, <1>3, <1>4, <1>5, <1>6, <1>7, <1>9, <1>10, <1>11, <1>12 DEF Thread

LEMMA DpcRoutineKeeps ==
  ASSUME TypesOk, Between(k), DpcRoutine
  PROVE  Kept
<1>1. DpcThread # IsrThread
  BY ContextsAre
<1>2. CASE KfRaiseIrql(DpcThread, HIGH_LEVEL)
  BY <1>1, <1>2, RaiseKeeps
<1>3. CASE KfLowerIrql(DpcThread, DISPATCH_LEVEL)
  <2>1. DISPATCH_LEVEL \in Irqls /\ DISPATCH_LEVEL # PASSIVE_LEVEL
    BY LevelsAre DEF DISPATCH_LEVEL, PASSIVE_LEVEL
  <2>. QED
    BY <1>1, <1>3, <2>1, LowerKeeps
<1>4. ASSUME NEW d \in Dpcs, KeInsertQueueDpc(DpcThread, d) PROVE Kept
  BY <1>4, InsertKeeps
<1>5. ASSUME NEW t \in Threads, KeSetEvent(DpcThread, t) PROVE Kept
  BY <1>5, SetEventKeeps
<1>6. CASE DpcRoutineReturns
  <2>1. Running(DpcThread)
    BY <1>6 DEF DpcRoutineReturns, AtBase, InCode
  <2>2. PICK s \in ClockTick(k) : k' \in SysOpEnd(DpcReturn(s))
    BY <1>6 DEF DpcRoutineReturns
  <2>3. Entered(s) /\ Keeps(k, s) /\ s.current = DpcThread /\ s.current = k.current
    BY <2>1, Looked
  <2>4. AtEnd(DpcReturn(s)) /\ KeepsOthers(s, DpcReturn(s))
    BY <2>3, DpcReturnIs
  <2>. QED
    BY <2>2, <2>3, <2>4, EntryIs DEF Kept
<1>. QED
  BY <1>2, <1>3, <1>4, <1>5, <1>6 DEF DpcRoutine

LEMMA IsrKeeps ==
  ASSUME TypesOk, Between(k), Isr
  PROVE  Kept
<1>1. ASSUME NEW d \in Dpcs, KeInsertQueueDpc(IsrThread, d) PROVE Kept
  BY <1>1, InsertKeeps
<1>2. CASE LowerLine
  BY <1>2, KeptSame DEF LowerLine
<1>3. CASE IsrReturns
  <2>1. Running(IsrThread)
    BY <1>3 DEF IsrReturns, AtBase, InCode
  <2>2. PICK s \in ClockTick(k) : k' \in SysOpEnd(IntrReturn(s))
    BY <1>3 DEF IsrReturns
  <2>3. Entered(s) /\ Keeps(k, s) /\ s.current = IsrThread /\ s.current = k.current
    BY <2>1, Looked
  <2>4. AtEnd(IntrReturn(s)) /\ KeepsOthers(s, IntrReturn(s))
    BY <2>3, IntrReturnIs, KeepsIsOthers
  <2>. QED
    BY <2>2, <2>3, <2>4, EntryIs DEF Kept
<1>. QED
  BY <1>1, <1>2, <1>3 DEF Isr

LEMMA StepKeeps ==
  ASSUME TypesOk, Between(k), LoweringOk, [Next]_vars
  PROVE  Kept
<1>1. CASE UNCHANGED vars
  BY <1>1, KeptSame DEF vars
<1>2. ASSUME NEW t \in Threads, Thread(t) PROVE Kept
  BY <1>2, ThreadKeeps
<1>3. CASE DpcRoutine
  BY <1>3, DpcRoutineKeeps
<1>4. CASE Isr
  BY <1>4, IsrKeeps
<1>5. ASSUME NEW c \in Contexts, Interrupt(c) PROVE Kept
  <2>1. Running(c)
    BY <1>5 DEF Interrupt
  <2>2. PICK s \in ClockTick(k) : k' \in SysOpEnd(s)
    BY <1>5 DEF Interrupt
  <2>3. Entered(s) /\ Keeps(k, s) /\ s.current = k.current
    BY <2>1, Looked
  <2>4. AtEnd(s) /\ KeepsOthers(s, s)
    BY <2>3, EnteredEnds DEF KeepsOthers
  <2>. QED
    BY <2>2, <2>3, <2>4, EntryIs DEF Kept
<1>6. ASSUME NEW l \in Lines, RaiseLine(l) PROVE Kept
  BY <1>6, KeptSame DEF RaiseLine
<1>7. CASE IdlePass
  <2>1. InPass(k)
    BY <1>7 DEF IdlePass, Between, InPass
  <2>2. Between(k') /\ Keeps(k, k')
    BY <1>7, <2>1, PassIs DEF IdlePass, TypesOk
  <2>. QED
    BY <2>2, KeepsIsOthers DEF Kept
<1>. QED
  BY <1>1, <1>2, <1>3, <1>4, <1>5, <1>6, <1>7 DEF Next

(* What is left in the queue is overlooked then too.                       *)
LEMMA LeftStays ==
  ASSUME [Next]_vars, Left(k')
  PROVE  Left(k)'
<1>1. CASE UNCHANGED vars
  BY <1>1 DEF vars, Left
<1>2. CASE Overlook
  <2> SUFFICES ASSUME NEW d \in Dpcs, Contains(k'.dpcs, d) PROVE d \in overlooked'
    BY DEF Left
  <2>1. d \in overlooked
    BY DEF Left
  <2>. QED
    BY <1>2, <2>1 DEF Overlook
<1>. QED
  BY <1>1, <1>2 DEF Next

LEMMA LoweringKeeps ==
  ASSUME LoweringOk, [Next]_vars
  PROVE  LoweringOk'
<1>1. CASE UNCHANGED vars
  BY <1>1 DEF vars, LoweringOk, Left
<1>2. CASE Overlook /\ lowering # {}
  <2> SUFFICES ASSUME NEW d \in Dpcs, Contains(k'.dpcs, d) PROVE d \in overlooked'
    BY DEF LoweringOk, Left
  <2>1. Contains(k.dpcs, d) => d \in overlooked
    BY <1>2 DEF LoweringOk, Left
  <2>. QED
    BY <1>2, <2>1 DEF Overlook
<1>3. CASE Next /\ lowering = {} /\ lowering' # {}
  <2>1. PICK t \in Threads : LowerLooks(t, PASSIVE_LEVEL)
    BY <1>3
    DEF Next, setUp, Thread, DpcRoutine, Isr, KfRaiseIrql, KfLowerIrql, LowerWrites, SetInterruptFlag,
        KeInsertQueueDpc, KeRemoveQueueDpc, KeSetEvent, Wait, NtYieldExecution, DpcRoutineReturns,
        IsrReturns, LowerLine, Interrupt, RaiseLine, IdlePass
  <2>2. k.dpcs = << >> /\ k' = k
    BY <2>1 DEF LowerLooks, LowerNeedsKernel, PASSIVE_LEVEL, DISPATCH_LEVEL
  <2>3. k'.dpcs = << >>
    BY <2>2
  <2>. QED
    BY <2>3 DEF LoweringOk, Left, Contains
<1>. QED
  BY <1>1, <1>2, <1>3 DEF Next, LoweringOk

LEMMA TypesKeep ==
  ASSUME TypesOk, [Next]_vars
  PROVE  TypesOk'
<1>1. UNCHANGED priority
  BY DEF Next, vars, setUp, Thread, DpcRoutine, Isr, KfRaiseIrql, KfLowerIrql, LowerLooks, LowerWrites, SetInterruptFlag,
         KeInsertQueueDpc, KeRemoveQueueDpc, KeSetEvent, Wait, NtYieldExecution, DpcRoutineReturns,
         IsrReturns, LowerLine, Interrupt, RaiseLine, IdlePass
<1>2. \/ UNCHANGED lines
      \/ \E l \in Lines : lines' = lines \cup {l}
      \/ \E l : lines' = lines \ {l}
  BY DEF Next, vars, setUp, Thread, DpcRoutine, Isr, KfRaiseIrql, KfLowerIrql, LowerLooks, LowerWrites, SetInterruptFlag,
         KeInsertQueueDpc, KeRemoveQueueDpc, KeSetEvent, Wait, NtYieldExecution, DpcRoutineReturns,
         IsrReturns, LowerLine, Interrupt, RaiseLine, IdlePass
<1>. QED
  BY <1>1, <1>2 DEF TypesOk

-----------------------------------------------------------------------------
(***************************************************************************)
(* The invariant, and what it says.                                        *)
(***************************************************************************)
LEMMA InitBetween ==
  ASSUME Init
  PROVE  Between(k) /\ TypesOk /\ LoweringOk
<1>1. PICK boot \in Threads :
        k = [status |-> [c \in Contexts |-> IF c = boot THEN "running"
                                           ELSE IF c \in Threads THEN "waiting"
                                           ELSE "suspended"],
             current |-> boot, idle |-> FALSE, irql |-> PASSIVE_LEVEL,
             interruptFlag |-> [c \in Contexts |-> TRUE],
             turn |-> << >>, sliceExpired |-> FALSE, resched |-> FALSE, forceSwitch |-> FALSE,
             inIsr |-> FALSE, isrLine |-> 0, isrSavedIrql |-> PASSIVE_LEVEL,
             isrInterrupted |-> NoThread, resumeFirst |-> NoThread,
             dpcs |-> << >>, inDpc |-> FALSE, dpcSavedIrql |-> PASSIVE_LEVEL,
             level |-> [c \in Contexts |-> PASSIVE_LEVEL]]
  BY DEF Init
<1>2. PICK status \in [Contexts -> Statuses] :
        status = [c \in Contexts |-> IF c = boot THEN "running"
                                     ELSE IF c \in Threads THEN "waiting" ELSE "suspended"]
  BY DEF Statuses
<1>3. PICK level \in [Contexts -> Irqls] : level = [c \in Contexts |-> PASSIVE_LEVEL]
  BY LevelsAre
<1>4. PICK flag \in [Contexts -> BOOLEAN] : flag = [c \in Contexts |-> TRUE]
  OBVIOUS
<1>5. << >> \in Seq(Threads) /\ << >> \in Seq(Dpcs)
  OBVIOUS
<1>6. boot \in Contexts
  BY ContextsAre
<1>7. k = [status |-> status, current |-> boot, idle |-> FALSE, irql |-> PASSIVE_LEVEL,
           interruptFlag |-> flag,
           turn |-> << >>, sliceExpired |-> FALSE, resched |-> FALSE, forceSwitch |-> FALSE,
           inIsr |-> FALSE, isrLine |-> 0, isrSavedIrql |-> PASSIVE_LEVEL,
           isrInterrupted |-> NoThread, resumeFirst |-> NoThread,
           dpcs |-> << >>, inDpc |-> FALSE, dpcSavedIrql |-> PASSIVE_LEVEL, level |-> level]
  BY <1>1, <1>2, <1>3, <1>4
<1>8. k \in Records
  BY <1>5, <1>6, <1>7, LevelsAre DEF Records
<1>9. /\ k.status = status /\ k.current = boot /\ ~k.idle /\ k.irql = PASSIVE_LEVEL
      /\ ~k.forceSwitch /\ ~k.inIsr /\ k.isrInterrupted = NoThread /\ k.resumeFirst = NoThread
      /\ k.dpcs = << >> /\ ~k.inDpc /\ k.level = level
  BY <1>7
<1>10. /\ \A c \in Contexts : k.level[c] = PASSIVE_LEVEL
       /\ \A t \in Threads : k.status[t] = IF t = boot THEN "running" ELSE "waiting"
       /\ k.status[DpcThread] = "suspended" /\ k.status[IsrThread] = "suspended"
  BY <1>2, <1>3, <1>9, ContextsAre
<1>11. Highest(k) = {}
  BY <1>10 DEF Highest, High
<1>12. ThreadsOk(k) /\ KernelThreadsOk(k) /\ RunsAlone(k)
  BY <1>9, <1>10, ContextsAre DEF ThreadsOk, KernelThreadsOk, RunsAlone
<1>13. OneHigh(k) /\ IsrLevel(k) /\ HeldFor(k)
  BY <1>9, <1>11 DEF OneHigh, IsrLevel, HeldFor, Base
<1>14. RightOneRuns(k)
  BY <1>9, <1>10, <1>11 DEF RightOneRuns
<1>15. Between(k)
  BY <1>8, <1>9, <1>12, <1>13, <1>14, EmptyLeft DEF Between, Core
<1>16. TypesOk /\ LoweringOk
  BY DEF Init, TypesOk, LoweringOk
<1>. QED
  BY <1>15, <1>16

LEMMA BetweenIsExact ==
  ASSUME Between(k)
  PROVE  IrqlExact
<1>1. Core(k) /\ k \in Records /\ k.irql \in Irqls /\ k.current \in Contexts
  BY DEF Between, Core, Records
<1>2. k.irql < DISPATCH_LEVEL => Left(k)
  <2>1. k.irql < DISPATCH_LEVEL => k.irql = PASSIVE_LEVEL
    BY <1>1 DEF Irqls, DISPATCH_LEVEL, PASSIVE_LEVEL
  <2>. QED
    BY <2>1 DEF Between
<1>3. ASSUME ~k.idle PROVE k.irql = k.level[k.current]
  <2>1. RightOneRuns(k)
    BY <1>3 DEF Between
  <2>2. CASE k.inIsr
    BY <1>1, <2>1, <2>2 DEF RightOneRuns, Core, IsrLevel
  <2>3. CASE ~k.inIsr
    <3>1. k.current # IsrThread
      BY <1>1, <2>1, <2>3 DEF RightOneRuns, Core, KernelThreadsOk
    <3>2. k.status[k.current] = "running" /\ Base(k) = k.irql
      BY <2>1, <2>3 DEF RightOneRuns, Base
    <3>3. CASE k.level[k.current] = PASSIVE_LEVEL
      <4>1. k.current \notin Highest(k)
        BY <3>3 DEF Highest, High
      <4>2. Highest(k) = {}
        BY <2>1, <2>3, <4>1 DEF RightOneRuns
      <4>. QED
        BY <1>1, <3>2, <3>3, <4>2 DEF Core, OneHigh
    <3>4. CASE k.level[k.current] # PASSIVE_LEVEL
      <4>1. k.current \in Highest(k)
        BY <1>1, <3>1, <3>2, <3>4 DEF Highest, High
      <4>. QED
        BY <1>1, <3>2, <4>1 DEF Core, OneHigh
    <3>. QED
      BY <3>3, <3>4
  <2>. QED
    BY <2>2, <2>3
<1>. QED
  BY <1>2, <1>3 DEF IrqlExact, Left

LEMMA HeldResumes ==
  ASSUME Between(k), Kept, NEW c \in Contexts, HeldOff(c), k'.current # IsrThread
  PROVE  k'.current = c
<1>1. c # IsrThread /\ k.status[c] = "ready" /\ k.level[c] # PASSIVE_LEVEL
  BY DEF HeldOff, DISPATCH_LEVEL, PASSIVE_LEVEL
<1>2. ~k.idle /\ c # k.current
  BY <1>1 DEF Between, RightOneRuns
<1>3. k'.status[c] # "suspended" /\ k'.level[c] = k.level[c]
  BY <1>1, <1>2 DEF Kept, KeepsOthers
<1>4. c \in Highest(k')
  BY <1>1, <1>3 DEF Highest, High
<1>5. ~k'.idle /\ RightOneRuns(k')
  BY <1>4 DEF Kept, Between
<1>. QED
  BY <1>4, <1>5 DEF RightOneRuns

IInv == Between(k) /\ TypesOk /\ LoweringOk

LEMMA Invariant == Spec => []IInv
<1>1. Init => IInv
  BY InitBetween DEF IInv
<1>2. IInv /\ [Next]_vars => IInv'
  <2> SUFFICES ASSUME IInv, [Next]_vars PROVE IInv'
    OBVIOUS
  <2>1. Between(k')
    BY StepKeeps DEF IInv, Kept
  <2>2. k'.irql = PASSIVE_LEVEL => Left(k)'
    BY <2>1, LeftStays DEF Between
  <2>3. Between(k)'
    BY <2>1, <2>2
    DEF Between, Core, Records, ThreadsOk, KernelThreadsOk, OneHigh, Base, IsrLevel, HeldFor, RunsAlone,
        RightOneRuns, Highest, High
  <2>. QED
    BY <2>3, TypesKeep, LoweringKeeps DEF IInv
<1>. QED
  BY <1>1, <1>2, PTL DEF Spec

(* The one IRQL the program keeps is at every moment that of the code that *)
(* runs, through raises and lowers in guest code or in the kernel, ISRs,   *)
(* DPCs and switches; and below DISPATCH_LEVEL no DPC waits but one that   *)
(* an interrupt queued between the look and the write of a lowering in     *)
(* guest code (kernel.c; ke.c KfLowerIrql, intr.c nc_intr_return, timer.c, *)
(* ps.c nc_ps_schedule).                                                   *)
THEOREM IrqlStaysExact == Spec => []IrqlExact
<1>1. IInv => IrqlExact
  BY BetweenIsExact DEF IInv
<1>. QED
  BY <1>1, Invariant, PTL

(* Code at DISPATCH_LEVEL or above that an ISR interrupted is the next to  *)
(* run below the ISRs, whatever threads are ready, slices end or DPCs are  *)
(* queued meanwhile (nc_intr_return in intr.c, resume_first in ps.c).      *)
THEOREM InterruptedGoesOn == Spec => InterruptedResumes
<1>1. IInv /\ [Next]_vars =>
        [\A c \in Contexts : HeldOff(c) /\ k'.current # IsrThread => k'.current = c]_vars
  BY StepKeeps, HeldResumes DEF IInv
<1>. QED
  BY <1>1, Invariant, PTL DEF Spec, InterruptedResumes
=============================================================================
