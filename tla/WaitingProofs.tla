--------------------------- MODULE WaitingProofs ----------------------------
(***************************************************************************)
(* Proofs about what threads wait for: ReadWriteLock and Dispatcher, for any *)
(* threads, objects and waits.                                             *)
(***************************************************************************)
EXTENDS ReadWriteLock, Dispatcher, FiniteSetTheorems, SequenceTheorems, TLAPS,
        WellFoundedInduction

-----------------------------------------------------------------------------
(***************************************************************************)
(* ReadWriteLock, for any number of threads.                               *)
(***************************************************************************)

-----------------------------------------------------------------------------
(***************************************************************************)
(* Facts about sets of thread slots.                                       *)
(***************************************************************************)

(* A walk of the table finds the first thread of a set that has one.       *)
LEMMA FirstSlotInSet ==
  ASSUME NEW S \in SUBSET Threads, S # {}
  PROVE  /\ FirstSlot(S) \in S
         /\ \A u \in S : FirstSlot(S) <= u
<1>1. S \subseteq Nat
  BY ThreadsAssumption
<1>2. \E t \in S : \A u \in S : ~ (<< u, t >> \in OpToRel(<, Nat))
  BY <1>1, NatLessThanWellFounded, WFMin
<1>3. PICK t \in S : \A u \in S : ~ (<< u, t >> \in OpToRel(<, Nat))
  BY <1>2
<1>4. \A u \in S : ~ (u < t)
  BY <1>1, <1>3 DEF OpToRel
<1>5. \A u \in S : t <= u
  BY <1>1, <1>4
<1>. QED
  BY <1>5 DEF FirstSlot

(* A set of slots is finite, and empty when it counts none.                *)
LEMMA SlotsFinite ==
  ASSUME NEW S \in SUBSET Threads
  PROVE  /\ IsFiniteSet(S)
         /\ Cardinality(S) \in Nat
         /\ Cardinality(S) = 0 <=> S = {}
<1>1. IsFiniteSet(S)
  BY ThreadsAssumption, FS_Subset
<1>. QED
  BY <1>1, FS_CardinalityType, FS_EmptySet

(* One slot more.                                                          *)
LEMMA SlotAdded ==
  ASSUME NEW S \in SUBSET Threads, NEW t \in Threads \ S
  PROVE  Cardinality(S \cup {t}) = Cardinality(S) + 1
  BY SlotsFinite, FS_AddElement

(* One slot less.                                                          *)
LEMMA SlotRemoved ==
  ASSUME NEW S \in SUBSET Threads, NEW t \in S
  PROVE  Cardinality(S \ {t}) = Cardinality(S) - 1
  BY SlotsFinite, FS_RemoveElement

-----------------------------------------------------------------------------
(***************************************************************************)
(* The inductive invariant.                                                *)
(***************************************************************************)
Counted == Threads \ In("out")
Holders == In("shared") \cup In("exclusive")

WritersAlone ==
  \A t \in In("exclusive") : In("exclusive") = {t} /\ In("shared") = {}

(* Somebody waits only while somebody holds the lock and will leave it.    *)
WaitersHaveHolder == Counted # {} => Holders # {}

(* Readers wait for readers only with a writer between them.               *)
ReadersBehind ==
  In("waits_shared") # {} /\ In("shared") # {} => In("waits_exclusive") # {}

LockIInv ==
  /\ state \in [Threads -> States]
  /\ CountsExact /\ WritersAlone /\ WaitersHaveHolder /\ ReadersBehind

-----------------------------------------------------------------------------
(* The threads in each state are disjoint sets of slots.                   *)
LEMMA Sets ==
  ASSUME NEW s
  PROVE  /\ In(s) \subseteq Threads /\ Counted \subseteq Threads
         /\ Cardinality(In(s)) \in Nat /\ (Cardinality(In(s)) = 0 <=> In(s) = {})
         /\ Cardinality(Counted) \in Nat /\ (Cardinality(Counted) = 0 <=> Counted = {})
<1>1. In(s) \subseteq Threads /\ Counted \subseteq Threads
  BY DEF In, Counted
<1>. QED
  BY <1>1, SlotsFinite

(* Every count has the range of a number of threads.                       *)
LEMMA CountsTyped == LockIInv => LockTypeOK
<1>. SUFFICES ASSUME LockIInv PROVE LockTypeOK
  OBVIOUS
<1>1. ASSUME NEW S \in SUBSET Threads PROVE Cardinality(S) \in 0..Cardinality(Threads)
  <2>1. Cardinality(S) <= Cardinality(Threads)
    BY ThreadsAssumption, FS_Subset
  <2>2. Cardinality(S) \in Nat /\ Cardinality(Threads) \in Nat
    BY SlotsFinite
  <2>. QED
    BY <2>1, <2>2
<1>2. Cardinality(Threads) \in Nat
  BY SlotsFinite
<1>3. \A s : Cardinality(In(s)) \in 0..Cardinality(Threads)
  BY <1>1, Sets
<1>4. lockCount \in -1..Cardinality(Threads) - 1
  BY <1>1, <1>2 DEF LockIInv, CountsExact
<1>. QED
  BY <1>2, <1>3, <1>4 DEF LockIInv, CountsExact, LockTypeOK

(* One thread goes from a state to another.                                *)
LEMMA Moves ==
  ASSUME state \in [Threads -> States], NEW t \in Threads, NEW from, from = state[t],
         NEW to \in States, from # to, state' = [state EXCEPT ![t] = to]
  PROVE  /\ state' \in [Threads -> States]
         /\ In(to)' = In(to) \cup {t} /\ In(from)' = In(from) \ {t}
         /\ \A s \in States \ {from, to} : In(s)' = In(s)
         /\ Cardinality(In(to)') = Cardinality(In(to)) + 1
         /\ Cardinality(In(from)') = Cardinality(In(from)) - 1
<1>1. In(to)' = In(to) \cup {t} /\ t \notin In(to) /\ In(from)' = In(from) \ {t} /\ t \in In(from)
  BY DEF In
<1>2. \A s \in States \ {from, to} : In(s)' = In(s)
  BY DEF In
<1>3. Cardinality(In(to)') = Cardinality(In(to)) + 1
  BY <1>1, Sets, SlotAdded
<1>4. Cardinality(In(from)') = Cardinality(In(from)) - 1
  BY <1>1, Sets, SlotRemoved
<1>. QED
  BY <1>1, <1>2, <1>3, <1>4

(* A thread more, or less, that has to do with the lock.                   *)
LEMMA CountedMore ==
  ASSUME LockIInv, NEW t \in In("out"), In("out")' = In("out") \ {t}
  PROVE  Counted' = Counted \cup {t} /\ Cardinality(Counted') = lockCount + 2
<1>1. Counted' = Counted \cup {t} /\ t \in Threads \ Counted /\ Counted \subseteq Threads
  BY DEF Counted, In
<1>2. Cardinality(Counted') = Cardinality(Counted) + 1
  BY <1>1, SlotAdded
<1>3. lockCount = Cardinality(Counted) - 1 /\ Cardinality(Counted) \in Nat
  BY Sets DEF LockIInv, CountsExact, Counted
<1>. QED
  BY <1>1, <1>2, <1>3

(* One that is counted goes out: the count was one more than lockCount.    *)
LEMMA CountedLess ==
  ASSUME LockIInv, NEW t \in Counted, In("out")' = In("out") \cup {t}
  PROVE  Counted' = Counted \ {t} /\ Cardinality(Counted') = lockCount
<1>1. Counted' = Counted \ {t} /\ Counted \subseteq Threads
  BY DEF Counted, In
<1>2. Cardinality(Counted') = Cardinality(Counted) - 1
  BY <1>1, SlotRemoved
<1>3. lockCount = Cardinality(Counted) - 1 /\ Cardinality(Counted) \in Nat
  BY Sets DEF LockIInv, CountsExact, Counted
<1>. QED
  BY <1>1, <1>2, <1>3

(* What the counts tell.                                                   *)
LEMMA CountsTell ==
  ASSUME LockIInv
  PROVE  /\ lockCount \in Int /\ readersEntry \in Nat /\ readersWaiting \in Nat /\ writersWaiting \in Nat
         /\ lockCount >= -1 /\ (lockCount = -1 <=> Counted = {})
         /\ (readersEntry = 0 <=> In("shared") = {})
         /\ (readersWaiting = 0 <=> In("waits_shared") = {})
         /\ (writersWaiting = 0 <=> In("waits_exclusive") = {})
<1>1. lockCount = Cardinality(Counted) - 1 /\ Cardinality(Counted) \in Nat
  BY Sets DEF LockIInv, CountsExact, Counted
<1>2. lockCount >= -1 /\ (lockCount = -1 <=> Counted = {})
  BY <1>1, Sets
<1>. QED
  BY <1>1, <1>2, Sets DEF LockIInv, CountsExact

(* A free lock counts nobody.                                              *)
LEMMA LockInitially == LockInit => LockIInv
<1>. SUFFICES ASSUME LockInit PROVE LockIInv
  OBVIOUS
<1>1. In("out") = Threads /\ \A s \in States \ {"out"} : In(s) = {}
  BY DEF LockInit, In
<1>2. Counted = {} /\ Cardinality(Counted) = 0
  BY <1>1, Sets DEF Counted
<1>3. \A s \in States \ {"out"} : Cardinality(In(s)) = 0
  BY <1>1, Sets
<1>4. state \in [Threads -> States] /\ CountsExact
  BY <1>2, <1>3 DEF LockInit, CountsExact, Counted, States
<1>. QED
  BY <1>1, <1>2, <1>4 DEF LockIInv, WritersAlone, WaitersHaveHolder, ReadersBehind, States
-----------------------------------------------------------------------------
(***************************************************************************)
(* The steps.                                                              *)
(***************************************************************************)
LEMMA ExclusiveStep ==
  ASSUME LockIInv, NEW t \in Threads, ExAcquireReadWriteLockExclusive(t)
  PROVE  LockIInv'
<1>1. state \in [Threads -> States] /\ state[t] = "out" /\ t \in In("out")
  BY DEF ExAcquireReadWriteLockExclusive, In, LockIInv
<1>2. CASE lockCount + 1 = 0
  <2>1. /\ state' = [state EXCEPT ![t] = "exclusive"] /\ lockCount' = lockCount + 1
        /\ UNCHANGED << writersWaiting, readersWaiting, readersEntry, writerEvent, readerSemaphore >>
    BY <1>2 DEF ExAcquireReadWriteLockExclusive
  <2>2. Counted = {} /\ In("shared") = {} /\ In("exclusive") = {}
    BY <1>2, CountsTell DEF Counted, In
  <2>3. /\ state' \in [Threads -> States] /\ In("out")' = In("out") \ {t}
        /\ In("exclusive")' = In("exclusive") \cup {t}
        /\ \A s \in {"shared", "waits_shared", "waits_exclusive"} : In(s)' = In(s)
    BY <1>1, <2>1, Moves DEF States
  <2>4. Counted' = {t} /\ Cardinality(Counted') = lockCount + 2
    BY <1>1, <2>2, <2>3, CountedMore
  <2>5. CountsExact'
    BY <2>1, <2>3, <2>4, CountsTell DEF LockIInv, CountsExact, Counted
  <2>. QED
    BY <2>2, <2>3, <2>5 DEF LockIInv, WritersAlone, WaitersHaveHolder, ReadersBehind, Holders
<1>3. CASE lockCount + 1 # 0
  <2>1. /\ state' = [state EXCEPT ![t] = "waits_exclusive"] /\ lockCount' = lockCount + 1
        /\ writersWaiting' = writersWaiting + 1
        /\ UNCHANGED << readersWaiting, readersEntry, writerEvent, readerSemaphore >>
    BY <1>3 DEF ExAcquireReadWriteLockExclusive, WaitForWriterEvent, LockIInv, CountsExact
  <2>2. Counted # {}
    BY <1>3, CountsTell
  <2>3. /\ state' \in [Threads -> States] /\ In("out")' = In("out") \ {t}
        /\ In("waits_exclusive")' = In("waits_exclusive") \cup {t}
        /\ Cardinality(In("waits_exclusive")') = Cardinality(In("waits_exclusive")) + 1
        /\ \A s \in {"shared", "waits_shared", "exclusive"} : In(s)' = In(s)
    BY <1>1, <2>1, Moves DEF States
  <2>4. Cardinality(Counted') = lockCount + 2
    BY <1>1, <2>3, CountedMore
  <2>5. CountsExact'
    BY <2>1, <2>3, <2>4, CountsTell DEF LockIInv, CountsExact, Counted
  <2>. QED
    BY <2>2, <2>3, <2>5 DEF LockIInv, WritersAlone, WaitersHaveHolder, ReadersBehind, Holders
<1>. QED
  BY <1>2, <1>3

(* An acquire for reading goes in, or waits behind a writer.               *)
LEMMA SharedStep ==
  ASSUME LockIInv, NEW t \in Threads, ExAcquireReadWriteLockShared(t)
  PROVE  LockIInv'
<1>1. state \in [Threads -> States] /\ state[t] = "out" /\ t \in In("out")
  BY DEF ExAcquireReadWriteLockShared, In, LockIInv
<1>2. CASE MustWait
  <2>1. /\ state' = [state EXCEPT ![t] = "waits_shared"] /\ lockCount' = lockCount + 1
        /\ readersWaiting' = readersWaiting + 1
        /\ UNCHANGED << writersWaiting, readersEntry, writerEvent, readerSemaphore >>
    BY <1>2 DEF ExAcquireReadWriteLockShared, WaitForReaderSemaphore, LockIInv, CountsExact
  <2>2. Counted # {} /\ (In("shared") = {} \/ In("waits_exclusive") # {})
    BY <1>2, CountsTell DEF MustWait
  <2>3. /\ state' \in [Threads -> States] /\ In("out")' = In("out") \ {t}
        /\ Cardinality(In("waits_shared")') = Cardinality(In("waits_shared")) + 1
        /\ \A s \in {"shared", "waits_exclusive", "exclusive"} : In(s)' = In(s)
    BY <1>1, <2>1, Moves DEF States
  <2>4. Cardinality(Counted') = lockCount + 2
    BY <1>1, <2>3, CountedMore
  <2>5. CountsExact'
    BY <2>1, <2>3, <2>4, CountsTell DEF LockIInv, CountsExact, Counted
  <2>. QED
    BY <2>2, <2>3, <2>5 DEF LockIInv, WritersAlone, WaitersHaveHolder, ReadersBehind, Holders
<1>3. CASE ~MustWait
  <2>1. /\ state' = [state EXCEPT ![t] = "shared"] /\ lockCount' = lockCount + 1
        /\ readersEntry' = readersEntry + 1
        /\ UNCHANGED << writersWaiting, readersWaiting, writerEvent, readerSemaphore >>
    BY <1>3 DEF ExAcquireReadWriteLockShared
  <2>2. In("exclusive") = {} /\ In("waits_shared") = {}
    <3>1. CASE lockCount < 0
      BY <3>1, CountsTell DEF Counted, In
    <3>2. CASE readersEntry # 0 /\ writersWaiting = 0
      BY <3>2, CountsTell DEF LockIInv, WritersAlone, ReadersBehind
    <3>. QED
      BY <1>3, <3>1, <3>2, CountsTell DEF MustWait
  <2>3. /\ state' \in [Threads -> States] /\ In("out")' = In("out") \ {t}
        /\ In("shared")' = In("shared") \cup {t}
        /\ Cardinality(In("shared")') = Cardinality(In("shared")) + 1
        /\ \A s \in {"waits_shared", "waits_exclusive", "exclusive"} : In(s)' = In(s)
    BY <1>1, <2>1, Moves DEF States
  <2>4. Cardinality(Counted') = lockCount + 2
    BY <1>1, <2>3, CountedMore
  <2>5. CountsExact'
    BY <2>1, <2>3, <2>4, CountsTell DEF LockIInv, CountsExact, Counted
  <2>. QED
    BY <2>2, <2>3, <2>5 DEF LockIInv, WritersAlone, WaitersHaveHolder, ReadersBehind, Holders
<1>. QED
  BY <1>2, <1>3

(* The holder that leaves, and who is left.                                *)
LEMMA Leaves ==
  ASSUME LockIInv, NEW t \in Threads, state[t] \in {"shared", "exclusive"}
  PROVE  /\ state \in [Threads -> States] /\ t \in Counted /\ t \in In(state[t])
         /\ (lockCount - 1 = -1 <=> Counted = {t})
         /\ state[t] = "exclusive" => In("exclusive") = {t} /\ In("shared") = {}
         /\ state[t] = "shared" => In("exclusive") = {} /\ In("shared") # {}
<1>1. t \in Counted /\ t \in In(state[t])
  BY DEF Counted, In
<1>2. Counted \ {t} \subseteq Threads /\ Cardinality(Counted \ {t}) = Cardinality(Counted) - 1
  BY <1>1, Sets, SlotRemoved
<1>3. Cardinality(Counted \ {t}) = 0 <=> Counted \ {t} = {}
  BY <1>2, SlotsFinite
<1>4. lockCount = Cardinality(Counted) - 1 /\ Cardinality(Counted) \in Nat
  BY Sets DEF LockIInv, CountsExact, Counted
<1>5. lockCount - 1 = -1 <=> Counted = {t}
  BY <1>1, <1>2, <1>3, <1>4
<1>6. state[t] = "exclusive" => In("exclusive") = {t} /\ In("shared") = {}
  BY <1>1 DEF LockIInv, WritersAlone
<1>7. state[t] = "shared" => In("exclusive") = {} /\ In("shared") # {}
  BY <1>1 DEF LockIInv, WritersAlone
<1>. QED
  BY <1>1, <1>5, <1>6, <1>7 DEF LockIInv

(* A holder leaves and nobody else comes in for it.                        *)
LEMMA LeaveStep ==
  ASSUME LockIInv, NEW t \in Threads, NEW from \in {"shared", "exclusive"}, from = state[t],
         state' = [state EXCEPT ![t] = "out"], lockCount' = lockCount - 1,
         readersEntry' = IF from = "shared" THEN readersEntry - 1 ELSE readersEntry,
         UNCHANGED << writersWaiting, readersWaiting, writerEvent, readerSemaphore >>,
         Counted # {t} => In("shared") \ {t} # {}
  PROVE  LockIInv'
<1>1. /\ state \in [Threads -> States] /\ t \in Counted
      /\ from = "exclusive" => In("exclusive") = {t} /\ In("shared") = {}
      /\ from = "shared" => In("exclusive") = {} /\ In("shared") # {}
  BY Leaves
<1>2. /\ state' \in [Threads -> States] /\ In("out")' = In("out") \cup {t}
      /\ In(from)' = In(from) \ {t} /\ Cardinality(In(from)') = Cardinality(In(from)) - 1
      /\ \A s \in States \ {from, "out"} : In(s)' = In(s)
  BY <1>1, Moves DEF States
<1>3. Counted' = Counted \ {t} /\ Cardinality(Counted') = lockCount
  BY <1>1, <1>2, CountedLess
<1>4. CountsExact'
  BY <1>2, <1>3, CountsTell DEF LockIInv, CountsExact, Counted, States
<1>5. In("exclusive")' = {}
  BY <1>1, <1>2 DEF States
<1>6. In("shared")' = In("shared") \ {t} /\ In("waits_shared")' = In("waits_shared")
      /\ In("waits_exclusive")' = In("waits_exclusive")
  BY <1>1, <1>2 DEF States
<1>. QED
  BY <1>2, <1>3, <1>4, <1>5, <1>6 DEF LockIInv, WritersAlone, WaitersHaveHolder, ReadersBehind, Holders

(* The readers that wait are all woken, and they are all there are.        *)
LEMMA ReadersWoken ==
  ASSUME LockIInv, readersEntry = 0, readersWaiting # 0, NEW t \in Threads, state[t] \in {"shared", "exclusive"},
         ReleaseReaderSemaphore(t, readersWaiting)
  PROVE  /\ readerSemaphore' = 0 /\ In("exclusive") = {t} /\ In("shared") = {} /\ In("waits_shared") # {}
         /\ state' = [u \in Threads |-> IF u = t THEN "out"
                                        ELSE IF state[u] = "waits_shared" THEN "shared" ELSE state[u]]
<1>1. PICK W : W = In("waits_shared")
  OBVIOUS
<1>2. /\ readerSemaphore = 0 /\ readersWaiting = Cardinality(W) /\ Cardinality(W) \in Nat
      /\ W \subseteq Threads /\ W # {}
  BY <1>1, Sets, CountsTell DEF LockIInv, CountsExact
<1>3. FirstSlots(W, 0 + Cardinality(W)) = W
  <2>1. ASSUME NEW u \in W PROVE Cardinality({v \in W : v < u}) < Cardinality(W)
    <3>1. u \in Nat
      BY <1>2, ThreadsAssumption
    <3>2. {v \in W : v < u} \subseteq W \ {u}
      BY <3>1
    <3>3. Cardinality(W \ {u}) = Cardinality(W) - 1 /\ IsFiniteSet(W \ {u})
      BY <1>2, SlotRemoved, SlotsFinite
    <3>4. Cardinality({v \in W : v < u}) <= Cardinality(W \ {u})
      BY <3>2, <3>3, FS_Subset
    <3>5. Cardinality({v \in W : v < u}) \in Nat
      BY <1>2, SlotsFinite
    <3>. QED
      BY <1>2, <3>3, <3>4, <3>5
  <2>2. 0 + Cardinality(W) = Cardinality(W)
    BY <1>2
  <2>. QED
    BY <2>1, <2>2 DEF FirstSlots
<1>4. readerSemaphore' = 0 + Cardinality(W) - Cardinality(W)
  BY <1>1, <1>2, <1>3 DEF ReleaseReaderSemaphore
<1>5. state' = [u \in Threads |-> IF u = t THEN "out" ELSE IF u \in W THEN "shared" ELSE state[u]]
  BY <1>1, <1>2, <1>3 DEF ReleaseReaderSemaphore
<1>6. \A u \in Threads : u \in W <=> state[u] = "waits_shared"
  BY <1>1 DEF In
<1>7. In("exclusive") = {t} /\ In("shared") = {}
  BY Leaves, CountsTell
<1>. QED
  BY <1>1, <1>2, <1>4, <1>5, <1>6, <1>7

(* A release lets all the readers in that wait.                            *)
LEMMA ReadersStep ==
  ASSUME LockIInv, NEW t \in Threads, state[t] \in {"shared", "exclusive"}, lockCount' = lockCount - 1,
         ReleaseToReaders(t)
  PROVE  LockIInv'
<1>1. /\ readersEntry = 0 /\ readersWaiting # 0 /\ ReleaseReaderSemaphore(t, readersWaiting)
      /\ readersWaiting' = 0 /\ readersEntry' = readersWaiting
      /\ UNCHANGED << writersWaiting, writerEvent >>
  BY DEF ReleaseToReaders
<1>2. /\ readerSemaphore' = 0 /\ In("exclusive") = {t} /\ In("shared") = {} /\ In("waits_shared") # {}
      /\ state' = [u \in Threads |-> IF u = t THEN "out"
                                     ELSE IF state[u] = "waits_shared" THEN "shared" ELSE state[u]]
  BY <1>1, ReadersWoken
<1>3. state \in [Threads -> States] /\ t \in Counted /\ state[t] = "exclusive"
  BY <1>2, Leaves DEF In
<1>4. state' \in [Threads -> States]
  BY <1>2, <1>3 DEF States
<1>5. In("out")' = In("out") \cup {t} /\ In("waits_exclusive")' = In("waits_exclusive")
  BY <1>2, <1>3 DEF In
<1>6. In("shared")' = In("waits_shared") /\ In("waits_shared")' = {} /\ In("exclusive")' = {}
  BY <1>2, <1>3 DEF In
<1>7. Cardinality(Counted') = lockCount
  BY <1>3, <1>5, CountedLess
<1>8. Cardinality(In("waits_shared")') = 0
  BY <1>6, FS_EmptySet
<1>9. CountsExact'
  BY <1>1, <1>2, <1>5, <1>6, <1>7, <1>8 DEF LockIInv, CountsExact, Counted
<1>. QED
  BY <1>2, <1>4, <1>6, <1>9 DEF LockIInv, WritersAlone, WaitersHaveHolder, ReadersBehind, Holders

(* The writer that comes in for the last holder.                           *)
LEMMA WriterWoken ==
  ASSUME LockIInv, NEW t \in Threads, state[t] \in {"shared", "exclusive"}, ReleaseToWriter(t)
  PROVE  /\ Holders = {t} /\ In("exclusive") \cup In("shared") = {t}
         /\ writerEvent' = 0
         /\ (state[t] = "shared" => readersEntry = 1) /\ (state[t] = "exclusive" => readersEntry = 0)
         /\ \E w \in In("waits_exclusive") :
              state' = [u \in Threads |-> IF u = t THEN "out" ELSE IF u = w THEN "exclusive" ELSE state[u]]
<1>1. /\ lockCount - 1 # -1 /\ SetWriterEvent(t)
      /\ (readersEntry = 0 /\ readersWaiting = 0) \/ readersEntry = 1
  BY DEF ReleaseToWriter
<1>2. Counted # {t} /\ t \in Counted /\ state \in [Threads -> States]
  BY <1>1, Leaves
<1>3. PICK u \in Counted : u # t
  BY <1>2
<1>4. u \in Threads /\ state[u] \in {"shared", "exclusive", "waits_shared", "waits_exclusive"}
  BY <1>2, <1>3 DEF Counted, In, States
<1>5. ASSUME readersEntry = 0 /\ readersWaiting = 0
      PROVE  state[t] = "exclusive" /\ Holders = {t} /\ In("waits_exclusive") # {}
  <2>1. state[t] = "exclusive" /\ In("exclusive") = {t} /\ In("shared") = {} /\ In("waits_shared") = {}
    BY <1>5, Leaves, CountsTell
  <2>2. u \in In("waits_exclusive")
    BY <1>3, <1>4, <2>1 DEF In
  <2>. QED
    BY <2>1, <2>2 DEF Holders
<1>6. ASSUME readersEntry = 1
      PROVE  state[t] = "shared" /\ Holders = {t} /\ In("waits_exclusive") # {}
  <2>1. state[t] = "shared" /\ In("exclusive") = {} /\ t \in In("shared")
    BY <1>6, Leaves, CountsTell
  <2>2. In("shared") = {t}
    <3>1. /\ Cardinality(In("shared") \ {t}) = Cardinality(In("shared")) - 1
          /\ In("shared") \ {t} \subseteq Threads
      BY <2>1, Sets, SlotRemoved
    <3>2. Cardinality(In("shared")) = 1
      BY <1>6 DEF LockIInv, CountsExact
    <3>3. In("shared") \ {t} = {}
      BY <3>1, <3>2, SlotsFinite
    <3>. QED
      BY <2>1, <3>3
  <2>3. In("waits_exclusive") # {}
    BY <1>3, <1>4, <2>1, <2>2 DEF In, LockIInv, ReadersBehind
  <2>. QED
    BY <2>1, <2>2, <2>3 DEF Holders
<1>7. Holders = {t} /\ In("waits_exclusive") # {}
  BY <1>1, <1>5, <1>6
<1>8. PICK w \in In("waits_exclusive") : w = FirstSlot(In("waits_exclusive"))
  BY <1>7, Sets, FirstSlotInSet
<1>9. /\ writerEvent' = 0
      /\ state' = [[state EXCEPT ![t] = "out"] EXCEPT ![w] = "exclusive"]
  BY <1>1, <1>7, <1>8 DEF SetWriterEvent
<1>10. w \in Threads /\ w # t
  BY <1>8 DEF In
<1>11. state' = [v \in Threads |-> IF v = t THEN "out" ELSE IF v = w THEN "exclusive" ELSE state[v]]
  BY <1>2, <1>9, <1>10
<1>. QED
  BY <1>1, <1>5, <1>6, <1>7, <1>9, <1>11 DEF Holders

(* A release lets one writer in.                                           *)
LEMMA WriterStep ==
  ASSUME LockIInv, NEW t \in Threads, state[t] \in {"shared", "exclusive"}, lockCount' = lockCount - 1,
         ReleaseToWriter(t)
  PROVE  LockIInv'
<1>1. /\ readersEntry' = 0 /\ writersWaiting' = writersWaiting - 1
      /\ UNCHANGED << readersWaiting, readerSemaphore >>
  BY DEF ReleaseToWriter
<1>2. PICK w \in In("waits_exclusive") :
        state' = [u \in Threads |-> IF u = t THEN "out" ELSE IF u = w THEN "exclusive" ELSE state[u]]
  BY WriterWoken
<1>3. Holders = {t} /\ writerEvent' = 0 /\ state \in [Threads -> States] /\ t \in Counted
  BY WriterWoken, Leaves
<1>4. /\ w \in Threads /\ state[w] = "waits_exclusive" /\ w # t
      /\ \A u \in Threads : state[u] \in {"shared", "exclusive"} <=> u = t
  BY <1>2, <1>3 DEF In, Holders
<1>5. /\ state' \in [Threads -> States] /\ In("out")' = In("out") \cup {t}
      /\ In("waits_shared")' = In("waits_shared")
  BY <1>2, <1>3, <1>4 DEF States, In
<1>6. In("shared")' = {} /\ In("exclusive")' = {w}
  BY <1>2, <1>3, <1>4 DEF In
<1>7. In("waits_exclusive")' = In("waits_exclusive") \ {w}
  BY <1>2, <1>3, <1>4 DEF In
<1>8. Cardinality(In("waits_exclusive")') = Cardinality(In("waits_exclusive")) - 1
  BY <1>2, <1>7, Sets, SlotRemoved
<1>9. Cardinality(Counted') = lockCount
  BY <1>3, <1>5, CountedLess
<1>10. Cardinality(In("shared")') = 0
  BY <1>6, FS_EmptySet
<1>11. CountsExact'
  BY <1>1, <1>3, <1>5, <1>8, <1>9, <1>10 DEF LockIInv, CountsExact, Counted
<1>. QED
  BY <1>5, <1>6, <1>11 DEF LockIInv, WritersAlone, WaitersHaveHolder, ReadersBehind, Holders

(* A release is one of: the lock is free, others still read, it is handed  *)
(* over.                                                                   *)
LEMMA ReleaseStep ==
  ASSUME LockIInv, NEW t \in Threads, ExReleaseReadWriteLock(t)
  PROVE  LockIInv'
<1>1. state[t] \in {"shared", "exclusive"} /\ lockCount' = lockCount - 1
  BY DEF ExReleaseReadWriteLock
<1>2. CASE ReleaseFree(t)
  <2>1. Counted = {t}
    BY <1>1, <1>2, Leaves DEF ReleaseFree
  <2>2. In("shared") \subseteq {t} /\ (state[t] = "exclusive" => readersEntry = 0)
    BY <1>1, <2>1, Leaves, CountsTell DEF Counted, In
  <2>3. state[t] = "shared" => readersEntry = 1
    <3>1. state[t] = "shared" => In("shared") = {t}
      BY <2>2 DEF In
    <3>. QED
      BY <3>1, FS_Singleton DEF LockIInv, CountsExact
  <2>4. readersEntry' = IF state[t] = "shared" THEN readersEntry - 1 ELSE readersEntry
    BY <1>1, <1>2, <2>2, <2>3 DEF ReleaseFree
  <2>. QED
    BY <1>1, <1>2, <2>1, <2>4, LeaveStep DEF ReleaseFree
<1>3. CASE ReleaseShared(t)
  <2>1. state[t] = "shared"
    BY <1>1, <1>3, Leaves, CountsTell DEF ReleaseShared
  <2>2. In("shared") \ {t} # {}
    <3>1. In("shared") = {t} => Cardinality(In("shared")) = 1
      BY FS_Singleton
    <3>2. In("shared") # {t} /\ In("shared") # {}
      BY <1>3, <3>1, CountsTell DEF ReleaseShared, LockIInv, CountsExact
    <3>. QED
      BY <3>2
  <2>. QED
    BY <1>1, <1>3, <2>1, <2>2, LeaveStep DEF ReleaseShared
<1>4. CASE ReleaseToReaders(t)
  BY <1>1, <1>4, ReadersStep
<1>5. CASE ReleaseToWriter(t)
  BY <1>1, <1>5, WriterStep
<1>. QED
  BY <1>2, <1>3, <1>4, <1>5 DEF ExReleaseReadWriteLock

(* Every call keeps the inductive invariant.                               *)
LEMMA LockNextStep == LockIInv /\ [LockNext]_vars => LockIInv'
<1>. SUFFICES ASSUME LockIInv, [LockNext]_vars PROVE LockIInv'
  OBVIOUS
<1>1. CASE UNCHANGED vars
  BY <1>1 DEF vars, counts, LockIInv, CountsExact, WritersAlone, WaitersHaveHolder, ReadersBehind,
     Holders, Counted, In
<1>. QED
  BY <1>1, ExclusiveStep, SharedStep, ReleaseStep DEF LockNext

(***************************************************************************)
(* The theorems.                                                           *)
(***************************************************************************)

(* Waiters have somebody to wait for, and readers wait for readers only    *)
(* with a writer in between: the inductive invariant of the lock (ke.c).   *)
THEOREM LockInvariant == LockSpec => []LockIInv
  BY LockInitially, LockNextStep, PTL DEF LockSpec

(* No count of the lock runs below zero or past the threads there are.     *)
THEOREM LockTypesOK == LockSpec => []LockTypeOK
  BY LockInvariant, CountsTyped, PTL

(* The lock's counts tell who is where, and no signal is left over.        *)
THEOREM CountsStayExact == LockSpec => []CountsExact
<1>1. LockIInv => CountsExact
  BY DEF LockIInv
<1>. QED
  BY <1>1, LockInvariant, PTL

(***************************************************************************)
(* The lock is readers together or one writer alone.                       *)
(***************************************************************************)
LEMMA HoldsAre ==
  ASSUME LockIInv
  PROVE  /\ Abstract!Readers = In("shared") /\ Abstract!Writers = In("exclusive")
         /\ \A t \in Threads : Holds[t] = "none" <=> state[t] \notin {"shared", "exclusive"}
<1>1. \A t \in Threads : Holds[t] = IF state[t] \in {"shared", "exclusive"} THEN state[t] ELSE "none"
  BY DEF Holds
<1>. QED
  BY <1>1 DEF Abstract!Readers, Abstract!Writers, In

(* A thread that does not hold the lock and gets in at once, or waits.     *)
LEMMA AcquireRefines ==
  ASSUME LockIInv, LockIInv', NEW t \in Threads,
         ExAcquireReadWriteLockExclusive(t) \/ ExAcquireReadWriteLockShared(t)
  PROVE  [Abstract!Next]_Holds
<1>1. state[t] = "out" /\ state \in [Threads -> States]
  BY DEF ExAcquireReadWriteLockExclusive, ExAcquireReadWriteLockShared, LockIInv
<1>2. PICK s \in {"shared", "exclusive", "waits_shared", "waits_exclusive"} :
        state' = [state EXCEPT ![t] = s]
  BY DEF ExAcquireReadWriteLockExclusive, ExAcquireReadWriteLockShared, WaitForWriterEvent,
     WaitForReaderSemaphore, LockIInv, CountsExact
<1>3. CASE s \in {"waits_shared", "waits_exclusive"}
  BY <1>1, <1>2, <1>3 DEF Holds
<1>4. CASE s \in {"shared", "exclusive"}
  <2>1. Holds[t] = "none" /\ Holds' = [Holds EXCEPT ![t] = s]
    BY <1>1, <1>2, <1>4 DEF Holds
  <2>2. t \in In(s)' /\ t \notin In("shared") /\ t \notin In("exclusive")
    BY <1>1, <1>2 DEF In
  <2>3. \A u \in Threads : u # t => (state'[u] = state[u])
    BY <1>1, <1>2
  <2>4. s = "shared" => In("exclusive") = {}
    BY <2>2, <2>3 DEF LockIInv, WritersAlone, In
  <2>5. s = "exclusive" => In("exclusive") = {} /\ In("shared") = {}
    BY <2>2, <2>3 DEF LockIInv, WritersAlone, In
  <2>. QED
    BY <1>4, <2>1, <2>4, <2>5, HoldsAre DEF Abstract!Next, Abstract!GetShared, Abstract!GetExclusive
<1>. QED
  BY <1>2, <1>3, <1>4

(* A thread that leaves, with those it lets in.                            *)
LEMMA ReleaseRefines ==
  ASSUME LockIInv, NEW t \in Threads, ExReleaseReadWriteLock(t)
  PROVE  Abstract!Next
<1>1. state[t] \in {"shared", "exclusive"} /\ state \in [Threads -> States]
  BY DEF ExReleaseReadWriteLock, LockIInv
<1>2. CASE ReleaseFree(t) \/ ReleaseShared(t)
  <2>1. state' = [state EXCEPT ![t] = "out"]
    BY <1>2 DEF ReleaseFree, ReleaseShared
  <2>2. Abstract!LeaveTo(t, {}, "shared")
    BY <1>1, <2>1, HoldsAre DEF Abstract!LeaveTo, Holds
  <2>. QED
    BY <2>2 DEF Abstract!Next
<1>3. CASE ReleaseToReaders(t)
  <2>1. /\ In("exclusive") = {t} /\ In("shared") = {}
        /\ state' = [u \in Threads |-> IF u = t THEN "out"
                                       ELSE IF state[u] = "waits_shared" THEN "shared" ELSE state[u]]
    BY <1>1, <1>3, ReadersWoken DEF ReleaseToReaders
  <2>2. In("waits_shared") \in SUBSET (Threads \ {t})
    BY <1>1 DEF In
  <2>3. Abstract!LeaveTo(t, In("waits_shared"), "shared")
    BY <1>1, <2>1, HoldsAre DEF Abstract!LeaveTo, Holds, In
  <2>. QED
    BY <2>2, <2>3 DEF Abstract!Next
<1>4. CASE ReleaseToWriter(t)
  <2>1. PICK w \in In("waits_exclusive") :
          state' = [u \in Threads |-> IF u = t THEN "out" ELSE IF u = w THEN "exclusive" ELSE state[u]]
    BY <1>1, <1>4, WriterWoken
  <2>2. In("exclusive") \cup In("shared") = {t}
    BY <1>1, <1>4, WriterWoken
  <2>3. {w} \in SUBSET (Threads \ {t}) /\ state[w] = "waits_exclusive"
    BY <1>1, <2>1 DEF In
  <2>4. Abstract!LeaveTo(t, {w}, "exclusive")
    <3>1. Holds' = [u \in Threads |-> IF u = t THEN "none"
                                      ELSE IF u \in {w} THEN "exclusive" ELSE Holds[u]]
      BY <1>1, <2>1, <2>3 DEF Holds
    <3>2. Holds[t] # "none" /\ \A n \in {w} : Holds[n] = "none"
      BY <1>1, <2>3, HoldsAre
    <3>3. Abstract!Writers \cup Abstract!Readers = {t}
      BY <2>2, HoldsAre
    <3>. QED
      BY <2>3, <3>1, <3>2, <3>3 DEF Abstract!LeaveTo
  <2>. QED
    BY <2>3, <2>4 DEF Abstract!Next
<1>. QED
  BY <1>2, <1>3, <1>4 DEF ExReleaseReadWriteLock

(* The read/write lock lets in readers together or one writer alone,       *)
(* whatever the order of the calls (ke.c, ERWLOCK).                        *)
THEOREM LockImplemented == LockSpec => ImplementsSharedLock
<1>1. LockInit => Abstract!Init
  BY DEF LockInit, Abstract!Init, Holds
<1>2. LockIInv /\ LockIInv' /\ [LockNext]_vars => [Abstract!Next]_Holds
  <2>. SUFFICES ASSUME LockIInv, LockIInv', [LockNext]_vars PROVE [Abstract!Next]_Holds
    OBVIOUS
  <2>1. CASE UNCHANGED vars
    BY <2>1 DEF vars, Holds
  <2>. QED
    BY <2>1, AcquireRefines, ReleaseRefines DEF LockNext
<1>. QED
  BY <1>1, <1>2, LockInvariant, PTL DEF LockSpec, ImplementsSharedLock, Abstract!Spec

(* A reader that asks while writers wait, waits; those that wait come in   *)
(* together when a writer leaves (ke.c ExAcquireReadWriteLockShared).      *)
THEOREM ReadersStayBehind == LockSpec => ReadersBehindWriters
<1>1. ASSUME LockIInv, [LockNext]_vars, In("waits_exclusive") # {}, In("shared")' \ In("shared") # {}
      PROVE  In("exclusive") # {} /\ In("waits_shared")' = {}
  <2>1. PICK u \in Threads : state'[u] = "shared" /\ state[u] # "shared"
    BY <1>1 DEF In
  <2>2. PICK t \in Threads : \/ ExAcquireReadWriteLockExclusive(t) \/ ExAcquireReadWriteLockShared(t)
                             \/ ExReleaseReadWriteLock(t)
    BY <1>1, <2>1 DEF LockNext, vars
  <2>3. state \in [Threads -> States]
    BY <1>1 DEF LockIInv
  <2>4. ~ExAcquireReadWriteLockExclusive(t)
    BY <2>1, <2>3 DEF ExAcquireReadWriteLockExclusive, WaitForWriterEvent
  <2>5. ~ExAcquireReadWriteLockShared(t)
    <3>1. MustWait
      <4>1. Counted # {}
        BY <1>1 DEF Counted, In
      <4>2. lockCount \in Int /\ lockCount >= 0 /\ writersWaiting # 0
        BY <1>1, <4>1, CountsTell
      <4>. QED
        BY <4>2 DEF MustWait
    <3>2. readerSemaphore = 0
      BY <1>1 DEF LockIInv, CountsExact
    <3>. QED
      BY <2>1, <2>3, <3>1, <3>2 DEF ExAcquireReadWriteLockShared, WaitForReaderSemaphore
  <2>6. state[t] \in {"shared", "exclusive"} /\ ExReleaseReadWriteLock(t)
    BY <2>2, <2>4, <2>5 DEF ExReleaseReadWriteLock
  <2>7. ~ReleaseFree(t) /\ ~ReleaseShared(t)
    BY <2>1, <2>3 DEF ReleaseFree, ReleaseShared
  <2>8. ~ReleaseToWriter(t)
    BY <1>1, <2>1, <2>6, WriterWoken
  <2>9. ReleaseToReaders(t)
    BY <2>6, <2>7, <2>8 DEF ExReleaseReadWriteLock
  <2>10. /\ In("exclusive") = {t}
         /\ state' = [v \in Threads |-> IF v = t THEN "out"
                                        ELSE IF state[v] = "waits_shared" THEN "shared" ELSE state[v]]
    BY <1>1, <2>6, <2>9, ReadersWoken DEF ReleaseToReaders
  <2>. QED
    BY <2>6, <2>10 DEF In
<1>2. LockIInv /\ [LockNext]_vars => [In("waits_exclusive") # {} /\ In("shared")' \ In("shared") # {} =>
         /\ In("exclusive") # {}
         /\ In("waits_shared")' = {}]_vars
  BY <1>1
<1>. QED
  BY <1>2, LockInvariant, PTL DEF LockSpec, ReadersBehindWriters

-----------------------------------------------------------------------------
(***************************************************************************)
(* Dispatcher, for any threads, objects and waits.                         *)
(***************************************************************************)

(***************************************************************************)
(* The state, and what holds of it between calls and within them.          *)
(***************************************************************************)
Waitables == Objects \cup Threads
Synchronization == OfKind({"synchronization_event", "synchronization_timer"})

State ==
  [signal : [Waitables -> Int], owner : [Mutants -> Threads \cup {NoThread}],
   wait : [Threads -> Waits \cup {Runs}], status : [Threads -> Int],
   ended : SUBSET Threads, resched : BOOLEAN, held : [Mutants -> [Threads -> Nat]]]

(* What each object's signal may be.                                       *)
SignalsWithin(s) ==
  /\ \A o \in Events \cup Timers \cup Threads : s.signal[o] \in {0, 1}
  /\ \A o \in Semaphores : s.signal[o] \in 0 .. Limit[o]

(* A mutant is free, or the owner it names has it as often as it says.     *)
Free(s, m) == s.owner[m] = NoThread /\ s.signal[m] = 1 /\ \A t \in Threads : s.held[m][t] = 0
Owned(s, m) ==
  /\ s.owner[m] \in Threads /\ s.signal[m] = 1 - s.held[m][s.owner[m]]
  /\ \A t \in Threads : s.held[m][t] > 0 <=> t = s.owner[m]
MutantsExact(s) == \A m \in Mutants : Free(s, m) \/ Owned(s, m)

(* Who waits for a mutant may still acquire it.                            *)
HeldWithin(s) == \A m \in Mutants, t \in Threads : s.held[m][t] <= MaxDepth
RoomToWait(s, w, t) == \A m \in Range(w.objects) \cap Mutants : s.held[m][t] < MaxDepth
WaitsWithin(s) == \A t \in Threads : RoomToWait(s, s.wait[t], t)

Good(s) ==
  /\ s \in State
  /\ SignalsWithin(s) /\ MutantsExact(s) /\ HeldWithin(s) /\ WaitsWithin(s)

(* Nobody waits for what is there.                                         *)
MissesNothing(s, t) == s.wait[t] # Runs => ~Satisfied(s, s.wait[t], t)
NoneMissed(s) == \A t \in Threads : MissesNothing(s, t)

IInv == Good(d) /\ (~d.resched => NoneMissed(d))

(***************************************************************************)
(* Kinds and waits.                                                        *)
(***************************************************************************)
LEMMA KindsApart ==
  /\ Objects \cap Threads = {}
  /\ Objects = Events \cup Timers \cup Semaphores \cup Mutants
  /\ Mutants \cap (Events \cup Timers \cup Semaphores) = {}
  /\ Semaphores \cap (Events \cup Timers) = {}
  /\ Synchronization \subseteq Events \cup Timers
  /\ Limit \in [Semaphores -> Nat \ {0}]
  BY DispatcherAssumption
     DEF DispatcherAssumption, Kinds, OfKind, Events, Timers, Semaphores, Mutants, Synchronization

(* What waits are made of, Runs among them.                                *)
LEMMA WaitsTyped ==
  ASSUME NEW w \in Waits \cup {Runs}
  PROVE  /\ w.objects \in Seq(Waitables)
         /\ Range(w.objects) \subseteq Waitables
         /\ w.all \in BOOLEAN
         /\ DOMAIN w.objects \subseteq Nat
         /\ w = Runs => w.objects = << >> /\ w.all = FALSE /\ w.timeout = "none"
         /\ w # Runs => w \in Waits
<1>1. w.objects \in Seq(Waitables) /\ w.all \in BOOLEAN
  <2>1. CASE w \in Waits
    <3>1. w \in [objects : Seq(Waitables), all : BOOLEAN, timeout : {"none", "some", "zero"}]
      BY <2>1, DispatcherAssumption DEF DispatcherAssumption, Wait, Waitables
    <3>. QED
      BY <3>1
  <2>2. CASE w = Runs
    BY <2>2, EmptySeq DEF Runs
  <2>. QED
    BY <2>1, <2>2
<1>2. DOMAIN w.objects = 1 .. Len(w.objects) /\ Len(w.objects) \in Nat
  BY <1>1
<1>3. Range(w.objects) \subseteq Waitables
  BY <1>1, <1>2 DEF Range
<1>. QED
  BY <1>1, <1>2, <1>3 DEF Runs

(* Runs is not a wait.                                                     *)
LEMMA RunsApart == Runs \notin Waits
  BY DispatcherAssumption DEF DispatcherAssumption, Runs

(* A set of naturals has a least one.                                      *)
LEMMA LeastOf ==
  ASSUME NEW K \in SUBSET Nat, K # {}
  PROVE  \E k \in K : \A m \in K : k <= m
<1>1. \E k \in K : \A m \in K : ~ (<< m, k >> \in OpToRel(<, Nat))
  BY NatLessThanWellFounded, WFMin
<1>2. PICK k \in K : \A m \in K : ~ (<< m, k >> \in OpToRel(<, Nat))
  BY <1>1
<1>3. \A m \in K : ~ (m < k)
  BY <1>2 DEF OpToRel
<1>4. \A m \in K : k <= m
  <2>1. k \in Nat /\ \A m \in K : m \in Nat
    OBVIOUS
  <2>. QED
    BY <1>3, <2>1
<1>. QED
  BY <1>4

(* A satisfied wait ends with one of its objects that is signaled, and     *)
(* takes signaled ones only.                                               *)
LEMMA TakesSignaled ==
  ASSUME NEW s, NEW t \in Threads, NEW w \in Waits, Satisfied(s, w, t)
  PROVE  LET i == First(w, SignaledAt(s, w, t))
         IN /\ i \in DOMAIN w.objects
            /\ Taken(w, i) \subseteq Range(w.objects)
            /\ \A o \in Taken(w, i) : IsSignaled(s, o, t)
<1>. DEFINE P == SignaledAt(s, w, t)
            i == First(w, P)
<1>1. /\ w.objects \in Seq(Waitables) /\ w.all \in BOOLEAN
      /\ DOMAIN w.objects \subseteq Nat
      /\ P \subseteq DOMAIN w.objects
      /\ \A j \in P : IsSignaled(s, w.objects[j], t)
  BY WaitsTyped DEF SignaledAt
<1>2. CASE w.all
  <2>1. w.objects # << >> /\ P = DOMAIN w.objects /\ i = 1
    BY <1>2 DEF Satisfied, First
  <2>2. 1 \in DOMAIN w.objects
    BY <1>1, <2>1
  <2>. QED
    BY <1>1, <1>2, <2>1, <2>2 DEF Taken, Range
<1>3. CASE ~w.all
  <2>1. P # {} /\ P \subseteq Nat
    BY <1>1, <1>3 DEF Satisfied
  <2>2. i = CHOOSE k \in P : \A j \in P : k <= j
    BY <1>3 DEF First
  <2>3. i \in P
    <3>. HIDE DEF P, i
    <3>. QED
      BY <2>1, <2>2, LeastOf
  <2>. QED
    BY <1>1, <1>3, <2>3 DEF Taken, Range
<1>. QED
  BY <1>2, <1>3

(***************************************************************************)
(* Acquiring.                                                              *)
(***************************************************************************)

(* q is s with the objects T acquired by t.                                *)
Got(s, q, T, t) ==
  /\ \A o \in Waitables : q.signal[o] = IF o \in T THEN Acquired(o, s.signal[o]) ELSE s.signal[o]
  /\ \A m \in Mutants : q.owner[m] = IF m \in T THEN t ELSE s.owner[m]
  /\ \A m \in Mutants, u \in Threads :
       q.held[m][u] = IF m \in T /\ u = t THEN s.held[m][u] + 1 ELSE s.held[m][u]

(* The values the fields of a state have.                                  *)
LEMMA StateTyped ==
  ASSUME NEW s \in State
  PROVE  /\ \A o \in Waitables : s.signal[o] \in Int
         /\ \A m \in Mutants : m \in Waitables /\ s.signal[m] \in Int
         /\ \A m \in Mutants : s.owner[m] \in Threads \cup {NoThread}
         /\ \A m \in Mutants, t \in Threads : s.held[m][t] \in Nat
         /\ \A m \in Mutants : s.held[m] \in [Threads -> Nat]
         /\ \A t \in Threads : s.wait[t] \in Waits \cup {Runs}
         /\ \A t \in Threads : s.status[t] \in Int
  BY KindsApart DEF State, Waitables

(* What acquiring does to each kind.                                       *)
LEMMA AcquiredIs ==
  ASSUME NEW n \in Int
  PROVE  /\ \A o \in Synchronization : Acquired(o, n) = 0
         /\ \A o \in Semaphores \cup Mutants : Acquired(o, n) = n - 1
         /\ \A o \in (Waitables \ (Synchronization \cup Semaphores \cup Mutants)) : Acquired(o, n) = n
  BY KindsApart DEF Acquired, Synchronization

(* Acquiring signaled objects keeps their signals within bounds,           *)
LEMMA AcquiredSignals ==
  ASSUME NEW s \in State, NEW q \in State, NEW t \in Threads, NEW T \in SUBSET Waitables,
         Got(s, q, T, t), SignalsWithin(s), \A o \in T : IsSignaled(s, o, t)
  PROVE  SignalsWithin(q)
<1>1. ASSUME NEW o \in Events \cup Timers \cup Threads
      PROVE  q.signal[o] \in {0, 1}
  <2>1. o \in Waitables /\ o \notin Semaphores \cup Mutants
    BY KindsApart DEF Waitables
  <2>2. s.signal[o] \in {0, 1}
    BY DEF SignalsWithin
  <2>3. q.signal[o] \in {s.signal[o], Acquired(o, s.signal[o])}
    BY <2>1 DEF Got
  <2>4. Acquired(o, s.signal[o]) \in {0, s.signal[o]}
    BY <2>1, <2>2, AcquiredIs
  <2>. QED
    BY <2>2, <2>3, <2>4
<1>2. ASSUME NEW o \in Semaphores
      PROVE  q.signal[o] \in 0 .. Limit[o]
  <2>1. o \in Waitables /\ o \notin Mutants /\ Limit[o] \in Nat
    BY KindsApart DEF Waitables
  <2>2. s.signal[o] \in 0 .. Limit[o]
    BY DEF SignalsWithin
  <2>3. CASE o \in T
    <3>1. s.signal[o] > 0
      BY <2>1, <2>3 DEF IsSignaled
    <3>2. q.signal[o] = s.signal[o] - 1
      BY <2>1, <2>2, <2>3, AcquiredIs DEF Got
    <3>. QED
      BY <2>1, <2>2, <3>1, <3>2
  <2>4. CASE o \notin T
    BY <2>1, <2>2, <2>4 DEF Got
  <2>. QED
    BY <2>3, <2>4
<1>. QED
  BY <1>1, <1>2 DEF SignalsWithin

(* and keeps every mutant free or owned as often as it says.               *)
LEMMA AcquiredMutants ==
  ASSUME NEW s \in State, NEW q \in State, NEW t \in Threads, NEW T \in SUBSET Waitables,
         Got(s, q, T, t), MutantsExact(s), \A o \in T : IsSignaled(s, o, t)
  PROVE  MutantsExact(q)
<1>. SUFFICES ASSUME NEW m \in Mutants PROVE Free(q, m) \/ Owned(q, m)
  BY DEF MutantsExact
<1>0. /\ m \in Waitables /\ s.signal[m] \in Int /\ NoThread \notin Threads
      /\ \A u \in Threads : s.held[m][u] \in Nat
      /\ Free(s, m) \/ Owned(s, m)
  BY StateTyped, ThreadsAssumption DEF MutantsExact
<1>1. CASE m \notin T
  <2>1. /\ q.owner[m] = s.owner[m] /\ q.signal[m] = s.signal[m]
        /\ \A u \in Threads : q.held[m][u] = s.held[m][u]
    BY <1>0, <1>1 DEF Got
  <2>. QED
    BY <1>0, <2>1 DEF Free, Owned
<1>2. CASE m \in T
  <2>1. /\ q.owner[m] = t /\ q.signal[m] = s.signal[m] - 1
        /\ \A u \in Threads : q.held[m][u] = IF u = t THEN s.held[m][u] + 1 ELSE s.held[m][u]
    BY <1>0, <1>2, AcquiredIs DEF Got
  <2>2. IsSignaled(s, m, t)
    BY <1>2
  <2>3. CASE Free(s, m)
    BY <1>0, <2>1, <2>3 DEF Free, Owned
  <2>4. CASE Owned(s, m)
    <3>1. s.held[m][s.owner[m]] > 0 /\ s.signal[m] <= 0
      BY <1>0, <2>4 DEF Owned
    <3>2. s.owner[m] = t
      BY <1>0, <2>2, <3>1 DEF IsSignaled
    <3>. QED
      BY <1>0, <2>1, <2>4, <3>1, <3>2 DEF Owned
  <2>. QED
    BY <1>0, <2>3, <2>4
<1>. QED
  BY <1>1, <1>2

(* Who acquires finds a mutant free or its own.                            *)
LEMMA OwnerOfSignaled ==
  ASSUME NEW s \in State, MutantsExact(s), NEW m \in Mutants, NEW t \in Threads,
         IsSignaled(s, m, t)
  PROVE  s.owner[m] \in {NoThread, t}
<1>1. /\ s.signal[m] \in Int /\ \A u \in Threads : s.held[m][u] \in Nat
      /\ Free(s, m) \/ Owned(s, m)
  BY StateTyped DEF MutantsExact
<1>2. CASE Owned(s, m)
  <2>1. s.held[m][s.owner[m]] > 0 /\ s.signal[m] <= 0
    BY <1>1, <1>2 DEF Owned
  <2>. QED
    BY <1>1, <2>1 DEF IsSignaled
<1>. QED
  BY <1>1, <1>2 DEF Free

(* What one thread acquires is signaled to no other that it was not        *)
(* signaled to before.                                                     *)
Less(s, q, t) == \A o \in Waitables : IsSignaled(q, o, t) => IsSignaled(s, o, t)

(* It leaves nothing more signaled to any other thread.                    *)
LEMMA AcquiredLess ==
  ASSUME NEW s \in State, NEW q \in State, NEW t \in Threads, NEW T \in SUBSET Waitables,
         Got(s, q, T, t), SignalsWithin(s), \A o \in T : IsSignaled(s, o, t)
  PROVE  \A u \in Threads \ {t} : Less(s, q, u)
<1>. SUFFICES ASSUME NEW u \in Threads \ {t}, NEW o \in Waitables, IsSignaled(q, o, u),
                     o \in T, ~IsSignaled(s, o, u)
              PROVE  FALSE
  BY DEF Less, Got, IsSignaled
<1>1. s.signal[o] \in Int /\ q.signal[o] = Acquired(o, s.signal[o])
  BY StateTyped DEF Got
<1>2. CASE o \in Mutants
  <2>1. q.signal[o] = s.signal[o] - 1 /\ q.owner[o] = t
    BY <1>1, <1>2, AcquiredIs DEF Got
  <2>. QED
    BY <1>1, <2>1 DEF IsSignaled
<1>3. CASE o \notin Mutants
  <2>1. s.signal[o] > 0
    BY <1>3 DEF IsSignaled
  <2>. QED
    BY <2>1, <1>3 DEF IsSignaled
<1>. QED
  BY <1>2, <1>3

(* What is signaled to t no more than before satisfies its wait no more.   *)
LEMMA LessSatisfied ==
  ASSUME NEW s, NEW q, NEW t \in Threads, Less(s, q, t), NEW w \in Waits,
         Satisfied(q, w, t)
  PROVE  Satisfied(s, w, t)
<1>1. \A i \in DOMAIN w.objects : w.objects[i] \in Waitables
  BY WaitsTyped DEF Range
<1>2. SignaledAt(q, w, t) \subseteq SignaledAt(s, w, t)
  BY <1>1 DEF SignaledAt, Less
<1>3. SignaledAt(s, w, t) \subseteq DOMAIN w.objects
  BY DEF SignaledAt
<1>. QED
  BY <1>2, <1>3, WaitsTyped DEF Satisfied

(* t's wait w ends with the i-th of its objects, or with all of them.      *)
Took(s, q, w, t, i) ==
  /\ i \in DOMAIN w.objects
  /\ Taken(w, i) \subseteq Range(w.objects) /\ Taken(w, i) \subseteq Waitables
  /\ \A o \in Taken(w, i) : IsSignaled(s, o, t)
  /\ Got(s, q, Taken(w, i), t)
  /\ q.status = [s.status EXCEPT ![t] = i]

(* Take: what a satisfied wait takes, and nothing else.                    *)
LEMMA TakeIs ==
  ASSUME NEW s \in State, NEW t \in Threads, NEW w \in Waits, Satisfied(s, w, t)
  PROVE  /\ Take(s, w, t) \in State
         /\ Take(s, w, t).wait = s.wait /\ Take(s, w, t).resched = s.resched
         /\ \E i \in DOMAIN w.objects : Took(s, Take(s, w, t), w, t, i)
<1>. DEFINE i == First(w, SignaledAt(s, w, t))
            T == Taken(w, i)
            signal == [o \in Waitables |-> IF o \in T THEN Acquired(o, s.signal[o]) ELSE s.signal[o]]
            owner == [m \in Mutants |-> IF m \in T THEN t ELSE s.owner[m]]
            held == [m \in Mutants |-> IF m \in T THEN [s.held[m] EXCEPT ![t] = @ + 1] ELSE s.held[m]]
            status == [s.status EXCEPT ![t] = i]
            q == Take(s, w, t)
<1>1. /\ i \in DOMAIN w.objects /\ i \in Int
      /\ T \subseteq Range(w.objects) /\ T \subseteq Waitables
      /\ \A o \in T : IsSignaled(s, o, t)
  <2>1. i \in DOMAIN w.objects /\ T \subseteq Range(w.objects) /\ \A o \in T : IsSignaled(s, o, t)
    BY TakesSignaled
  <2>2. Range(w.objects) \subseteq Waitables /\ DOMAIN w.objects \subseteq Nat
    BY WaitsTyped
  <2>. HIDE DEF i, T
  <2>. QED
    BY <2>1, <2>2
<1>2. q = [s EXCEPT !.signal = signal, !.owner = owner, !.held = held, !.status = status]
  <2>. HIDE DEF i
  <2>1. q = [Acquire(s, T, t) EXCEPT !.status[t] = i]
    BY DEF Take, i
  <2>2. Acquire(s, T, t) = [s EXCEPT !.signal = signal, !.owner = owner, !.held = held]
    BY DEF Acquire, Waitables
  <2>. HIDE DEF T, signal, owner, held
  <2>3. DOMAIN s = {"signal", "owner", "wait", "status", "ended", "resched", "held"}
    BY DEF State
  <2>. QED
    BY <2>1, <2>2, <2>3
<1>3. signal \in [Waitables -> Int]
  <2>1. \A o \in Waitables : Acquired(o, s.signal[o]) \in Int /\ s.signal[o] \in Int
    BY StateTyped, AcquiredIs
  <2>. HIDE DEF T
  <2>. QED
    BY <2>1
<1>4. owner \in [Mutants -> Threads \cup {NoThread}]
  <2>. HIDE DEF T
  <2>. QED
    BY StateTyped
<1>5. /\ held \in [Mutants -> [Threads -> Nat]]
      /\ \A m \in Mutants, u \in Threads :
           held[m][u] = IF m \in T /\ u = t THEN s.held[m][u] + 1 ELSE s.held[m][u]
  <2>. HIDE DEF T
  <2>. QED
    BY StateTyped
<1>6. status \in [Threads -> Int]
  <2>. HIDE DEF i
  <2>. QED
    BY <1>1 DEF State
<1>7. /\ q \in State /\ q.wait = s.wait /\ q.ended = s.ended /\ q.resched = s.resched
      /\ q.signal = signal /\ q.owner = owner /\ q.held = held /\ q.status = status
  <2>. HIDE DEF signal, owner, held, status, i, T, q
  <2>. QED
    BY <1>2, <1>3, <1>4, <1>5, <1>6 DEF State
<1>8. Got(s, q, T, t)
  <2>. HIDE DEF q, i, T
  <2>. QED
    BY <1>5, <1>7 DEF Got
<1>9. Took(s, q, w, t, i)
  <2>. HIDE DEF q, i
  <2>. QED
    BY <1>1, <1>7, <1>8 DEF Took
<1>. QED
  BY <1>1, <1>7, <1>9

(* It leaves a good state when t waits no more.                            *)
LEMMA TookGood ==
  ASSUME NEW s, Good(s), NEW q \in State, NEW t \in Threads, NEW w \in Waits,
         NEW i, Took(s, q, w, t, i), RoomToWait(s, w, t),
         q.wait[t] = Runs, \A u \in Threads \ {t} : q.wait[u] = s.wait[u]
  PROVE  Good(q)
<1>1. s \in State /\ SignalsWithin(s) /\ MutantsExact(s) /\ HeldWithin(s) /\ WaitsWithin(s)
  BY DEF Good
<1>2. /\ Got(s, q, Taken(w, i), t) /\ Taken(w, i) \subseteq Waitables
      /\ Taken(w, i) \subseteq Range(w.objects)
      /\ \A o \in Taken(w, i) : IsSignaled(s, o, t)
  BY DEF Took
<1>3. SignalsWithin(q)
  BY <1>1, <1>2, AcquiredSignals
<1>4. MutantsExact(q)
  BY <1>1, <1>2, AcquiredMutants
<1>5. HeldWithin(q)
  <2>. SUFFICES ASSUME NEW m \in Mutants, NEW u \in Threads PROVE q.held[m][u] <= MaxDepth
    BY DEF HeldWithin
  <2>1. s.held[m][u] \in Nat /\ s.held[m][u] <= MaxDepth /\ MaxDepth \in Nat
    BY <1>1, StateTyped, DispatcherAssumption DEF HeldWithin, DispatcherAssumption
  <2>2. CASE m \in Taken(w, i) /\ u = t
    BY <1>2, <2>1, <2>2 DEF Got, RoomToWait
  <2>3. CASE ~(m \in Taken(w, i) /\ u = t)
    BY <1>2, <2>1, <2>3 DEF Got
  <2>. QED
    BY <2>2, <2>3
<1>6. WaitsWithin(q)
  <2>. SUFFICES ASSUME NEW u \in Threads PROVE RoomToWait(q, q.wait[u], u)
    BY DEF WaitsWithin
  <2>1. CASE u = t
    <3>1. Range(q.wait[t].objects) = {}
      BY WaitsTyped DEF Range, Runs
    <3>. QED
      BY <2>1, <3>1 DEF RoomToWait
  <2>2. CASE u # t
    <3>1. \A m \in Mutants : q.held[m][u] = s.held[m][u]
      BY <1>2, <2>2 DEF Got
    <3>2. RoomToWait(s, q.wait[u], u)
      BY <1>1, <2>2 DEF WaitsWithin
    <3>. QED
      BY <3>1, <3>2 DEF RoomToWait
  <2>. QED
    BY <2>1, <2>2
<1>. QED
  BY <1>3, <1>4, <1>5, <1>6 DEF Good

(***************************************************************************)
(* What a walk of the table does to each thread and to each mutant.        *)
(***************************************************************************)
Same(s, q, t) ==
  /\ q.wait[t] = s.wait[t] /\ q.status[t] = s.status[t]
  /\ \A m \in Mutants : q.held[m][t] = s.held[m][t]
  /\ Less(s, q, t)

EndsTaking(s, q, t) ==
  LET w == s.wait[t]
  IN /\ w # Runs /\ q.wait[t] = Runs /\ q.status[t] \in DOMAIN w.objects
     /\ \A m \in Mutants : q.held[m][t] = IF m \in Taken(w, q.status[t]) THEN s.held[m][t] + 1
                                          ELSE s.held[m][t]

EndsLate(s, q, t) ==
  LET w == s.wait[t]
  IN /\ w # Runs /\ q.wait[t] = Runs /\ q.status[t] \notin DOMAIN w.objects
     /\ \A m \in Mutants : q.held[m][t] = s.held[m][t]
     /\ ~Satisfied(q, w, t)

Goes(s, q, t) == Same(s, q, t) \/ EndsTaking(s, q, t) \/ EndsLate(s, q, t)

Kept(s, q, m) == q.held[m] = s.held[m] /\ q.owner[m] = s.owner[m]
GivenTo(s, q, m, u) ==
  /\ q.owner[m] = u /\ s.owner[m] \in {NoThread, u}
  /\ q.held[m] = [s.held[m] EXCEPT ![u] = @ + 1]
Given(s, q, m) ==
  Kept(s, q, m) \/ \E u \in Threads : s.wait[u] # Runs /\ q.wait[u] = Runs /\ GivenTo(s, q, m, u)

Walked(s, q) ==
  /\ Good(q)
  /\ \A t \in Threads : Goes(s, q, t)
  /\ \A m \in Mutants : Given(s, q, m)

(* Doing nothing is a walk.                                                *)
LEMMA NoStep ==
  ASSUME NEW s, Good(s)
  PROVE  Walked(s, s)
BY DEF Walked, Goes, Same, Less, Given, Kept

(* What walks do to a thread, and to a mutant, composes.                   *)
LEMMA GoesOn ==
  ASSUME NEW s, NEW q, NEW r, NEW t \in Threads, s.wait[t] \in Waits \cup {Runs},
         Goes(s, q, t), Goes(q, r, t)
  PROVE  Goes(s, r, t)
<1>1. CASE Same(s, q, t)
  <2>1. CASE Same(q, r, t)
    BY <1>1, <2>1 DEF Goes, Same, Less
  <2>2. CASE EndsTaking(q, r, t)
    BY <1>1, <2>2 DEF Goes, Same, EndsTaking
  <2>3. CASE EndsLate(q, r, t)
    BY <1>1, <2>3 DEF Goes, Same, EndsLate
  <2>. QED
    BY <2>1, <2>2, <2>3 DEF Goes
<1>2. CASE EndsTaking(s, q, t)
  <2>1. Same(q, r, t)
    BY <1>2 DEF Goes, EndsTaking, EndsLate
  <2>. QED
    BY <1>2, <2>1 DEF Goes, EndsTaking, Same
<1>3. CASE EndsLate(s, q, t)
  <2>1. Same(q, r, t)
    BY <1>3 DEF Goes, EndsTaking, EndsLate
  <2>2. s.wait[t] \in Waits
    BY <1>3 DEF EndsLate
  <2>3. ~Satisfied(r, s.wait[t], t)
    BY <1>3, <2>1, <2>2, LessSatisfied DEF Same, EndsLate
  <2>. QED
    BY <1>3, <2>1, <2>3 DEF Goes, EndsLate, Same
<1>. QED
  BY <1>1, <1>2, <1>3 DEF Goes

(* Who waits on has waited all along; who has been served waits no more.   *)
LEMMA GoesWaits ==
  ASSUME NEW s, NEW q, NEW t \in Threads, Goes(s, q, t)
  PROVE  q.wait[t] \in {s.wait[t], Runs}
BY DEF Goes, Same, EndsTaking, EndsLate

(* A mutant is given once at most: who has it does not lose it to a walk.  *)
LEMMA GivenOn ==
  ASSUME NEW s \in State, NEW q \in State, NEW r \in State, NEW m \in Mutants,
         Given(s, q, m), Given(q, r, m),
         \A t \in Threads : Goes(s, q, t) /\ Goes(q, r, t)
  PROVE  Given(s, r, m)
<1>1. CASE Kept(s, q, m)
  <2>1. CASE Kept(q, r, m)
    BY <1>1, <2>1 DEF Given, Kept
  <2>2. CASE ~Kept(q, r, m)
    <3>1. PICK u \in Threads : q.wait[u] # Runs /\ r.wait[u] = Runs /\ GivenTo(q, r, m, u)
      BY <2>2 DEF Given
    <3>2. s.wait[u] # Runs
      BY <3>1, GoesWaits
    <3>3. GivenTo(s, r, m, u)
      BY <1>1, <3>1 DEF GivenTo, Kept
    <3>. QED
      BY <3>1, <3>2, <3>3 DEF Given
  <2>. QED
    BY <2>1, <2>2
<1>2. CASE ~Kept(s, q, m)
  <2>1. PICK u \in Threads : s.wait[u] # Runs /\ q.wait[u] = Runs /\ GivenTo(s, q, m, u)
    BY <1>2 DEF Given
  <2>2. r.wait[u] = Runs
    BY <2>1, GoesWaits
  <2>3. Kept(q, r, m)
    <3>1. ASSUME NEW v \in Threads, q.wait[v] # Runs, GivenTo(q, r, m, v) PROVE FALSE
      BY <2>1, <3>1, ThreadsAssumption DEF GivenTo
    <3>. QED
      BY <3>1 DEF Given
  <2>4. GivenTo(s, r, m, u)
    BY <2>1, <2>3 DEF GivenTo, Kept
  <2>. QED
    BY <2>1, <2>2, <2>4 DEF Given
<1>. QED
  BY <1>1, <1>2

(* A walk and another are a walk.                                          *)
LEMMA WalkedOn ==
  ASSUME NEW s, Good(s), NEW q, Walked(s, q), NEW r, Walked(q, r)
  PROVE  Walked(s, r)
<1>1. s \in State /\ q \in State /\ r \in State
  BY DEF Good, Walked
<1>2. \A t \in Threads : Goes(s, r, t)
  BY <1>1, StateTyped, GoesOn DEF Walked
<1>3. \A m \in Mutants : Given(s, r, m)
  BY <1>1, GivenOn DEF Walked
<1>. QED
  BY <1>2, <1>3 DEF Walked

(* What the taking of one thread does to the others and to the mutants.    *)
LEMMA TookGoes ==
  ASSUME NEW s, Good(s), NEW q \in State, NEW t \in Threads, NEW w \in Waits,
         NEW i, Took(s, q, w, t, i)
  PROVE  /\ \A u \in Threads \ {t} : q.wait[u] = s.wait[u] => Same(s, q, u)
         /\ \A m \in Mutants : IF m \in Taken(w, i) THEN GivenTo(s, q, m, t) ELSE Kept(s, q, m)
<1>. DEFINE T == Taken(w, i)
<1>1. /\ s \in State /\ SignalsWithin(s) /\ MutantsExact(s) /\ T \subseteq Waitables
      /\ Got(s, q, T, t) /\ \A o \in T : IsSignaled(s, o, t)
      /\ q.status = [s.status EXCEPT ![t] = i]
  BY DEF Good, Took
<1>. HIDE DEF T
<1>2. ASSUME NEW u \in Threads \ {t}, q.wait[u] = s.wait[u]
      PROVE  Same(s, q, u)
  <2>1. Less(s, q, u)
    BY <1>1, AcquiredLess
  <2>2. q.status[u] = s.status[u]
    BY <1>1 DEF State
  <2>3. \A m \in Mutants : q.held[m][u] = s.held[m][u]
    BY <1>1 DEF Got
  <2>. QED
    BY <1>2, <2>1, <2>2, <2>3 DEF Same
<1>3. ASSUME NEW m \in Mutants
      PROVE  IF m \in T THEN GivenTo(s, q, m, t) ELSE Kept(s, q, m)
  <2>1. s.held[m] \in [Threads -> Nat] /\ q.held[m] \in [Threads -> Nat]
    BY <1>1, StateTyped
  <2>2. /\ q.owner[m] = IF m \in T THEN t ELSE s.owner[m]
        /\ \A u \in Threads :
             q.held[m][u] = IF m \in T /\ u = t THEN s.held[m][u] + 1 ELSE s.held[m][u]
    BY <1>1 DEF Got
  <2>3. CASE m \in T
    <3>1. s.owner[m] \in {NoThread, t}
      BY <1>1, <2>3, OwnerOfSignaled
    <3>2. q.held[m] = [s.held[m] EXCEPT ![t] = @ + 1]
      BY <2>1, <2>2, <2>3
    <3>. QED
      BY <2>2, <2>3, <3>1, <3>2 DEF GivenTo
  <2>4. CASE m \notin T
    <3>1. q.held[m] = s.held[m]
      BY <2>1, <2>2, <2>4
    <3>. QED
      BY <2>2, <2>4, <3>1 DEF Kept
  <2>. QED
    BY <2>3, <2>4
<1>. QED
  BY <1>2, <1>3 DEF T

(* A satisfied wait ends with what it takes.                               *)
LEMMA CheckWaitTakes ==
  ASSUME NEW s, Good(s), NEW t \in Threads, NEW late,
         s.wait[t] # Runs, Satisfied(s, s.wait[t], t)
  PROVE  Walked(s, CheckWait(s, t, late)) /\ MissesNothing(CheckWait(s, t, late), t)
<1>. DEFINE w == s.wait[t]
            p == Take(s, w, t)
            q == CheckWait(s, t, late)
<1>1. s \in State /\ w \in Waits /\ RoomToWait(s, w, t)
  BY StateTyped DEF Good, WaitsWithin
<1>2. /\ p \in State /\ p.wait = s.wait
      /\ \E i \in DOMAIN w.objects : Took(s, p, w, t, i)
  BY <1>1, TakeIs
<1>3. PICK i \in DOMAIN w.objects : Took(s, p, w, t, i)
  BY <1>2
<1>4. q = [p EXCEPT !.wait[t] = Runs]
  BY DEF CheckWait
<1>. HIDE DEF p, q
<1>5. /\ q \in State /\ q.wait = [s.wait EXCEPT ![t] = Runs]
      /\ q.signal = p.signal /\ q.owner = p.owner /\ q.held = p.held
      /\ q.status = p.status /\ q.ended = p.ended /\ q.resched = p.resched
  BY <1>1, <1>2, <1>4 DEF State
<1>6. q.wait[t] = Runs /\ \A u \in Threads \ {t} : q.wait[u] = s.wait[u]
  BY <1>1, <1>5 DEF State
<1>7. Took(s, q, w, t, i)
  BY <1>3, <1>5 DEF Took, Got
<1>8. Good(q)
  BY <1>1, <1>5, <1>6, <1>7, TookGood
<1>9. /\ \A u \in Threads \ {t} : Same(s, q, u)
      /\ \A m \in Mutants : IF m \in Taken(w, i) THEN GivenTo(s, q, m, t) ELSE Kept(s, q, m)
  BY <1>1, <1>5, <1>6, <1>7, TookGoes
<1>10. EndsTaking(s, q, t)
  <2>1. q.status[t] = i
    BY <1>1, <1>7 DEF Took, State
  <2>2. \A m \in Mutants : q.held[m][t] = IF m \in Taken(w, i) THEN s.held[m][t] + 1 ELSE s.held[m][t]
    BY <1>7 DEF Took, Got
  <2>. QED
    BY <1>3, <1>6, <2>1, <2>2 DEF EndsTaking
<1>11. \A m \in Mutants : Given(s, q, m)
  BY <1>6, <1>9 DEF Given
<1>12. \A u \in Threads : Goes(s, q, u)
  BY <1>9, <1>10 DEF Goes
<1>. QED
  BY <1>6, <1>8, <1>11, <1>12 DEF Walked, MissesNothing, q

(* One that is not, and is past its deadline, ends without.                *)
LEMMA CheckWaitLate ==
  ASSUME NEW s, Good(s), NEW t \in Threads, NEW late,
         s.wait[t] # Runs, ~Satisfied(s, s.wait[t], t), t \in late
  PROVE  Walked(s, CheckWait(s, t, late)) /\ MissesNothing(CheckWait(s, t, late), t)
<1>. DEFINE w == s.wait[t]
            n == IF w.objects = << >> THEN 0 ELSE STATUS_TIMEOUT
            q == CheckWait(s, t, late)
<1>1. s \in State /\ w \in Waits
  BY StateTyped DEF Good
<1>2. q = [s EXCEPT !.wait[t] = Runs, !.status[t] = n]
  BY DEF CheckWait
<1>3. n \in Int /\ n \notin DOMAIN w.objects
  <2>1. w.objects \in Seq(Waitables)
    BY <1>1, WaitsTyped
  <2>2. DOMAIN w.objects = 1 .. Len(w.objects)
    BY <2>1
  <2>3. n \in {0, -1}
    BY DEF STATUS_TIMEOUT
  <2>. HIDE DEF n
  <2>. QED
    BY <2>2, <2>3
<1>. HIDE DEF n, q
<1>4. /\ q \in State /\ q.wait = [s.wait EXCEPT ![t] = Runs]
      /\ q.status = [s.status EXCEPT ![t] = n]
      /\ q.signal = s.signal /\ q.owner = s.owner /\ q.held = s.held
      /\ q.ended = s.ended /\ q.resched = s.resched
  BY <1>1, <1>2, <1>3 DEF State
<1>5. /\ q.wait[t] = Runs /\ \A u \in Threads \ {t} : q.wait[u] = s.wait[u]
      /\ q.status[t] = n /\ \A u \in Threads \ {t} : q.status[u] = s.status[u]
  BY <1>1, <1>4 DEF State
<1>6. \A u \in Threads : Less(s, q, u)
  BY <1>4 DEF Less, IsSignaled
<1>7. Good(q)
  <2>1. SignalsWithin(q) /\ MutantsExact(q) /\ HeldWithin(q)
    BY <1>4 DEF Good, SignalsWithin, MutantsExact, HeldWithin, Free, Owned
  <2>2. \A u \in Threads : RoomToWait(q, s.wait[u], u)
    BY <1>4 DEF Good, WaitsWithin, RoomToWait
  <2>3. RoomToWait(q, Runs, t)
    BY WaitsTyped DEF RoomToWait, Range, Runs
  <2>4. WaitsWithin(q)
    BY <1>5, <2>2, <2>3 DEF WaitsWithin
  <2>. QED
    BY <1>4, <2>1, <2>4 DEF Good
<1>8. EndsLate(s, q, t)
  <2>1. ~Satisfied(q, w, t)
    BY <1>1, <1>6, LessSatisfied
  <2>. QED
    BY <1>3, <1>4, <1>5, <2>1 DEF EndsLate
<1>9. \A u \in Threads : Goes(s, q, u)
  BY <1>4, <1>5, <1>6, <1>8 DEF Goes, Same
<1>10. \A m \in Mutants : Given(s, q, m)
  BY <1>4 DEF Given, Kept
<1>. QED
  BY <1>4, <1>5, <1>7, <1>9, <1>10 DEF Walked, MissesNothing, q

(* Either way the thread misses nothing afterwards.                        *)
LEMMA CheckWaitStep ==
  ASSUME NEW s, Good(s), NEW t \in Threads, NEW late
  PROVE  Walked(s, CheckWait(s, t, late)) /\ MissesNothing(CheckWait(s, t, late), t)
<1>1. CASE s.wait[t] = Runs \/ (~Satisfied(s, s.wait[t], t) /\ t \notin late)
  <2>1. CheckWait(s, t, late) = s
    BY <1>1 DEF CheckWait
  <2>. QED
    BY <1>1, <2>1, NoStep DEF MissesNothing
<1>. QED
  BY <1>1, CheckWaitTakes, CheckWaitLate

(* Who misses nothing misses nothing of what others leave.                 *)
LEMMA MissesNothingOn ==
  ASSUME NEW s, Good(s), NEW q, NEW t \in Threads, Goes(s, q, t), MissesNothing(s, t)
  PROVE  MissesNothing(q, t)
<1>. SUFFICES ASSUME q.wait[t] # Runs PROVE ~Satisfied(q, q.wait[t], t)
  BY DEF MissesNothing
<1>1. Same(s, q, t)
  BY DEF Goes, EndsTaking, EndsLate
<1>2. s.wait[t] \in Waits
  BY <1>1, StateTyped DEF Good, Same
<1>. QED
  BY <1>1, <1>2, LessSatisfied DEF Same, MissesNothing

(***************************************************************************)
(* The walk of the table.                                                  *)
(***************************************************************************)
IsWalk(f, s, late, N) ==
  f = [n \in 0 .. N |-> IF n = 0 THEN s
                       ELSE IF n - 1 \in Threads THEN CheckWait(f[n - 1], n - 1, late)
                       ELSE f[n - 1]]

(* The recursive function of the walk exists and obeys its equation.       *)
LEMMA WalkExists ==
  ASSUME NEW N \in Nat, NEW s, NEW late
  PROVE  \E f : IsWalk(f, s, late, N)
<1>. DEFINE K == {k \in Nat : ~ \E f : IsWalk(f, s, late, k)}
<1>. SUFFICES ASSUME K # {} PROVE FALSE
  OBVIOUS
<1>1. PICK k \in K : \A m \in K : k <= m
  BY LeastOf
<1>2. k # 0
  <2>1. IsWalk([n \in 0 .. 0 |-> s], s, late, 0)
    BY DEF IsWalk
  <2>. QED
    BY <2>1
<1>3. k - 1 \in Nat /\ k - 1 \notin K
  BY <1>1, <1>2
<1>4. PICK h : IsWalk(h, s, late, k - 1)
  BY <1>3
<1>. DEFINE next(g, n) == IF n = 0 THEN s
                          ELSE IF n - 1 \in Threads THEN CheckWait(g[n - 1], n - 1, late)
                          ELSE g[n - 1]
            f == [n \in 0 .. k |-> next(h, n)]
            g == [n \in 0 .. k |-> next(f, n)]
<1>5. \A n \in 0 .. (k - 1) : f[n] = h[n]
  <2>. TAKE n \in 0 .. (k - 1)
  <2>1. n \in 0 .. k
    BY <1>3
  <2>2. h = [j \in 0 .. (k - 1) |-> next(h, j)]
    BY <1>4 DEF IsWalk
  <2>. HIDE DEF next
  <2>. QED
    BY <2>1, <2>2
<1>6. \A n \in 0 .. k : n # 0 => f[n - 1] = h[n - 1]
  <2>1. \A n \in 0 .. k : n # 0 => n - 1 \in 0 .. (k - 1)
    BY <1>3
  <2>. HIDE DEF f
  <2>. QED
    BY <1>5, <2>1
<1>7. \A n \in 0 .. k : next(f, n) = next(h, n)
  <2>. HIDE DEF f
  <2>. QED
    BY <1>6
<1>8. f = g
  <2>. HIDE DEF next
  <2>. QED
    BY <1>7
<1>9. IsWalk(f, s, late, k)
  BY <1>8 DEF IsWalk
<1>. QED
  BY <1>1, <1>9

(* CheckWaits is its last value.                                           *)
LEMMA WalkIs ==
  ASSUME NEW s, NEW late
  PROVE  \E f : IsWalk(f, s, late, NC_MAX_THREADS) /\ CheckWaits(s, late) = f[NC_MAX_THREADS]
<1>. DEFINE walk == CHOOSE f : IsWalk(f, s, late, NC_MAX_THREADS)
<1>1. NC_MAX_THREADS \in Nat
  BY DispatcherAssumption DEF DispatcherAssumption
<1>2. IsWalk(walk, s, late, NC_MAX_THREADS)
  BY <1>1, WalkExists
<1>3. CheckWaits(s, late) = walk[NC_MAX_THREADS]
  BY DEF CheckWaits, IsWalk
<1>. QED
  BY <1>2, <1>3

(* A walk serves who can be served, and misses nobody.                     *)
LEMMA WalkServes ==
  ASSUME NEW s, Good(s), NEW late
  PROVE  Walked(s, CheckWaits(s, late)) /\ NoneMissed(CheckWaits(s, late))
<1>. DEFINE N == NC_MAX_THREADS
<1>1. PICK f : IsWalk(f, s, late, N) /\ CheckWaits(s, late) = f[N]
  BY WalkIs
<1>2. N \in Nat /\ \A t \in Threads : t \in Nat /\ t < N
  BY DispatcherAssumption DEF DispatcherAssumption
<1>. HIDE DEF N
<1>3. /\ f[0] = s
      /\ \A n \in 0 .. N : n # 0 =>
           f[n] = IF n - 1 \in Threads THEN CheckWait(f[n - 1], n - 1, late) ELSE f[n - 1]
  BY <1>1, <1>2 DEF IsWalk
<1>. DEFINE P(n) == Walked(s, f[n]) /\ \A t \in Threads : t < n => MissesNothing(f[n], t)
            K == {k \in Nat : k <= N /\ ~P(k)}
<1>4. ASSUME K # {} PROVE FALSE
  <2>1. PICK k \in K : \A m \in K : k <= m
    BY <1>4, LeastOf
  <2>2. k # 0
    <3>1. P(0)
      BY <1>2, <1>3, NoStep
    <3>. HIDE DEF P
    <3>. QED
      BY <2>1, <3>1
  <2>3. k \in 0 .. N /\ k - 1 \in Nat /\ k - 1 <= N /\ k - 1 \notin K
    <3>. HIDE DEF P
    <3>. QED
      BY <1>2, <2>1, <2>2
  <2>4. P(k - 1)
    <3>. HIDE DEF P
    <3>. QED
      BY <2>3
  <2>5. PICK q : q = f[k - 1]
    OBVIOUS
  <2>6. Walked(s, q) /\ Good(q) /\ \A t \in Threads : t < k - 1 => MissesNothing(q, t)
    BY <2>4, <2>5 DEF Walked
  <2>7. CASE k - 1 \in Threads
    <3>1. PICK t \in Threads : t = k - 1
      BY <2>7
    <3>2. f[k] = CheckWait(q, t, late)
      BY <1>3, <2>2, <2>3, <2>5, <3>1
    <3>3. Walked(q, f[k]) /\ MissesNothing(f[k], t)
      BY <2>6, <3>2, CheckWaitStep
    <3>4. Walked(s, f[k])
      BY <2>6, <3>3, WalkedOn
    <3>5. \A u \in Threads : u < t => MissesNothing(f[k], u)
      BY <2>6, <3>1, <3>3, MissesNothingOn DEF Walked
    <3>6. \A u \in Threads : u < k => u < t \/ u = t
      BY <1>2, <2>3, <3>1
    <3>7. P(k)
      BY <3>3, <3>4, <3>5, <3>6
    <3>. HIDE DEF P
    <3>. QED
      BY <2>1, <3>7
  <2>8. CASE k - 1 \notin Threads
    <3>1. f[k] = q
      BY <1>3, <2>2, <2>3, <2>5, <2>8
    <3>2. \A u \in Threads : u < k => u < k - 1
      BY <1>2, <2>3, <2>8
    <3>3. P(k)
      BY <2>6, <3>1, <3>2
    <3>. HIDE DEF P
    <3>. QED
      BY <2>1, <3>3
  <2>. QED
    BY <2>7, <2>8
<1>5. P(N)
  <2>. HIDE DEF P
  <2>. QED
    BY <1>2, <1>4
<1>. QED
  BY <1>1, <1>2, <1>5 DEF NoneMissed, N

(***************************************************************************)
(* A call.                                                                 *)
(***************************************************************************)
Ready(s) == ~s.resched => NoneMissed(s)

(* Steps that signal nothing and serve nobody.                             *)
Quieter(s, q) ==
  /\ Good(q)
  /\ q.wait = s.wait /\ q.status = s.status /\ q.held = s.held /\ q.owner = s.owner
  /\ \A t \in Threads : Less(s, q, t)

(* Such steps are a walk that serves nobody.                               *)
LEMMA QuieterWalked ==
  ASSUME NEW s, NEW q, Quieter(s, q)
  PROVE  Walked(s, q)
BY DEF Quieter, Walked, Goes, Same, Given, Kept

(* A walk makes nobody miss what it did not miss before.                   *)
LEMMA WalkedReady ==
  ASSUME NEW s, Good(s), NEW q, Walked(s, q), NoneMissed(s)
  PROVE  NoneMissed(q)
BY MissesNothingOn DEF Walked, NoneMissed

(* A pass of the scheduler is a walk, and nobody misses anything after.    *)
LEMMA PassServes ==
  ASSUME NEW s, Good(s), Ready(s), NEW late
  PROVE  Walked(s, Pass(s, late)) /\ Ready(Pass(s, late))
<1>1. CASE ~s.resched
  <2>1. Pass(s, late) = s
    BY <1>1 DEF Pass
  <2>. QED
    BY <2>1, NoStep
<1>2. CASE s.resched
  <2>. DEFINE p == CheckWaits(s, late)
              q == [p EXCEPT !.resched = FALSE]
  <2>1. Walked(s, p) /\ NoneMissed(p) /\ Good(p)
    BY WalkServes DEF Walked
  <2>2. Pass(s, late) = q
    BY <1>2 DEF Pass
  <2>. HIDE DEF p
  <2>3. /\ q \in State /\ q.signal = p.signal /\ q.owner = p.owner /\ q.wait = p.wait
        /\ q.status = p.status /\ q.held = p.held
    BY <2>1 DEF Good, State
  <2>. HIDE DEF q
  <2>4. Quieter(p, q)
    <3>1. \A t \in Threads : Less(p, q, t)
      BY <2>3 DEF Less, IsSignaled
    <3>2. Good(q)
      BY <2>1, <2>3 DEF Good, SignalsWithin, MutantsExact, HeldWithin, WaitsWithin, RoomToWait,
                        Free, Owned
    <3>. QED
      BY <2>3, <3>1, <3>2 DEF Quieter
  <2>5. Walked(p, q)
    BY <2>4, QuieterWalked
  <2>6. Walked(s, q) /\ NoneMissed(q)
    BY <2>1, <2>5, WalkedOn, WalkedReady
  <2>. QED
    BY <2>2, <2>6 DEF Ready
<1>. QED
  BY <1>1, <1>2

(* What a call of c does after it has changed what it changes, b: to the   *)
(* other threads what a walk does, and no mutant goes to two.              *)
Lent(b, q, m) == Kept(b, q, m) \/ \E u \in Threads : q.wait[u] = Runs /\ GivenTo(b, q, m, u)

Does(c, b, q) ==
  /\ Good(q)
  /\ \A t \in Threads \ {c} : Goes(b, q, t)
  /\ \A m \in Mutants : Lent(b, q, m)

(* A walk alone is something a call may do,                                *)
LEMMA WalkedDoes ==
  ASSUME NEW c, NEW b, NEW q, Walked(b, q)
  PROVE  Does(c, b, q)
BY DEF Walked, Does, Given, Lent

(* and a walk after what a call did is one still.                          *)
LEMMA DoesOn ==
  ASSUME NEW c, NEW b, Good(b), NEW q, Does(c, b, q), NEW r, Walked(q, r)
  PROVE  Does(c, b, r)
<1>1. b \in State /\ Good(r) /\ \A t \in Threads : Goes(q, r, t)
  BY DEF Good, Walked
<1>2. \A t \in Threads \ {c} : Goes(b, r, t)
  BY <1>1, StateTyped, GoesOn DEF Does
<1>3. ASSUME NEW m \in Mutants PROVE Lent(b, r, m)
  <2>1. Given(q, r, m)
    BY DEF Walked
  <2>2. CASE Kept(b, q, m)
    BY <2>1, <2>2 DEF Given, Lent, Kept, GivenTo
  <2>3. CASE ~Kept(b, q, m)
    <3>1. PICK u \in Threads : q.wait[u] = Runs /\ GivenTo(b, q, m, u)
      BY <2>3 DEF Does, Lent
    <3>2. r.wait[u] = Runs
      BY <1>1, <3>1, GoesWaits
    <3>3. Kept(q, r, m)
      <4>1. ASSUME NEW v \in Threads, q.wait[v] # Runs, GivenTo(q, r, m, v) PROVE FALSE
        BY <3>1, <4>1, ThreadsAssumption DEF GivenTo
      <4>. QED
        BY <2>1, <4>1 DEF Given
    <3>4. GivenTo(b, r, m, u)
      BY <3>1, <3>3 DEF GivenTo, Kept
    <3>. QED
      BY <3>2, <3>4 DEF Lent
  <2>. QED
    BY <2>2, <2>3
<1>. QED
  BY <1>1, <1>2, <1>3 DEF Does

(* A wait of c, after what the call may have signaled.                     *)
LEMMA StartWaitDoes ==
  ASSUME NEW c \in Threads, NEW b, Good(b), NEW x, Walked(b, x), b.wait[c] = Runs,
         Ready(x), NEW w \in Waits, RoomToWait(x, w, c)
  PROVE  Does(c, b, StartWait(x, w, c)) /\ Ready(StartWait(x, w, c))
<1>. DEFINE y == StartWait(x, w, c)
<1>0. b \in State /\ Good(x) /\ x \in State /\ x.wait[c] = Runs
  BY GoesWaits DEF Walked, Good
<1>1. CASE Satisfied(x, w, c)
  <2>1. y = Take(x, w, c)
    BY <1>1 DEF StartWait
  <2>. HIDE DEF y
  <2>2. /\ y \in State /\ y.wait = x.wait /\ y.resched = x.resched
        /\ \E i \in DOMAIN w.objects : Took(x, y, w, c, i)
    BY <1>0, <1>1, <2>1, TakeIs
  <2>3. PICK i \in DOMAIN w.objects : Took(x, y, w, c, i)
    BY <2>2
  <2>4. Good(y)
    BY <1>0, <2>2, <2>3, TookGood
  <2>5. /\ \A t \in Threads \ {c} : Same(x, y, t)
        /\ \A m \in Mutants : IF m \in Taken(w, i) THEN GivenTo(x, y, m, c) ELSE Kept(x, y, m)
    BY <1>0, <2>2, <2>3, TookGoes
  <2>6. \A t \in Threads \ {c} : Goes(x, y, t)
    BY <2>5 DEF Goes
  <2>7. \A t \in Threads \ {c} : Goes(b, y, t)
    BY <1>0, <2>6, StateTyped, GoesOn DEF Walked
  <2>8. ASSUME NEW m \in Mutants PROVE Lent(b, y, m)
    <3>1. Given(b, x, m)
      BY DEF Walked
    <3>2. CASE Kept(x, y, m)
      BY <2>2, <3>1, <3>2 DEF Given, Lent, Kept, GivenTo
    <3>3. CASE GivenTo(x, y, m, c)
      <4>1. Kept(b, x, m)
        <5>1. ASSUME NEW u \in Threads, b.wait[u] # Runs, GivenTo(b, x, m, u) PROVE FALSE
          BY <3>3, <5>1, ThreadsAssumption DEF GivenTo
        <5>. QED
          BY <3>1, <5>1 DEF Given
      <4>2. GivenTo(b, y, m, c)
        BY <3>3, <4>1 DEF GivenTo, Kept
      <4>. QED
        BY <1>0, <2>2, <4>2 DEF Lent
    <3>. QED
      BY <2>5, <3>2, <3>3
  <2>9. Ready(y)
    <3>. SUFFICES ASSUME ~y.resched, NEW t \in Threads PROVE MissesNothing(y, t)
      BY DEF Ready, NoneMissed
    <3>1. MissesNothing(x, t)
      BY <2>2 DEF Ready, NoneMissed
    <3>2. CASE t = c
      BY <1>0, <2>2, <3>2 DEF MissesNothing
    <3>3. CASE t # c
      BY <1>0, <2>6, <3>1, <3>3, MissesNothingOn
    <3>. QED
      BY <3>2, <3>3
  <2>. QED
    BY <2>4, <2>7, <2>8, <2>9 DEF Does, y
<1>2. CASE ~Satisfied(x, w, c) /\ w.timeout = "zero"
  <2>1. y = [x EXCEPT !.status[c] = STATUS_TIMEOUT]
    BY <1>2 DEF StartWait
  <2>. HIDE DEF y
  <2>2. /\ y \in State /\ y.signal = x.signal /\ y.owner = x.owner /\ y.wait = x.wait
        /\ y.held = x.held /\ y.resched = x.resched
        /\ \A t \in Threads \ {c} : y.status[t] = x.status[t]
    <3>1. STATUS_TIMEOUT \in Int
      BY DEF STATUS_TIMEOUT
    <3>2. [x.status EXCEPT ![c] = STATUS_TIMEOUT] \in [Threads -> Int]
      BY <1>0, <3>1 DEF State
    <3>. DEFINE status == [x.status EXCEPT ![c] = STATUS_TIMEOUT]
    <3>3. \A t \in Threads \ {c} : status[t] = x.status[t]
      BY <1>0 DEF State
    <3>4. y = [x EXCEPT !.status = status]
      BY <2>1
    <3>. HIDE DEF status
    <3>5. status \in [Threads -> Int]
      BY <3>2 DEF status
    <3>. QED
      BY <1>0, <3>3, <3>4, <3>5 DEF State
  <2>3. \A t \in Threads : Less(x, y, t)
    BY <2>2 DEF Less, IsSignaled
  <2>4. Good(y)
    BY <1>0, <2>2 DEF Good, SignalsWithin, MutantsExact, HeldWithin, WaitsWithin, RoomToWait,
                      Free, Owned
  <2>5. \A t \in Threads \ {c} : Goes(x, y, t)
    BY <2>2, <2>3 DEF Goes, Same
  <2>6. \A t \in Threads \ {c} : Goes(b, y, t)
    BY <1>0, <2>5, StateTyped, GoesOn DEF Walked
  <2>7. \A m \in Mutants : Lent(b, y, m)
    BY <2>2 DEF Walked, Given, Lent, Kept, GivenTo
  <2>8. Ready(y)
    <3>. SUFFICES ASSUME ~y.resched, NEW t \in Threads PROVE MissesNothing(y, t)
      BY DEF Ready, NoneMissed
    <3>1. MissesNothing(x, t)
      BY <2>2 DEF Ready, NoneMissed
    <3>2. CASE t = c
      BY <1>0, <2>2, <3>2 DEF MissesNothing
    <3>3. CASE t # c
      BY <1>0, <2>5, <3>1, <3>3, MissesNothingOn
    <3>. QED
      BY <3>2, <3>3
  <2>. QED
    BY <2>4, <2>6, <2>7, <2>8 DEF Does, y
<1>3. CASE ~Satisfied(x, w, c) /\ w.timeout # "zero"
  <2>1. y = [x EXCEPT !.wait[c] = w, !.resched = TRUE]
    BY <1>3 DEF StartWait
  <2>. HIDE DEF y
  <2>2. /\ y \in State /\ y.signal = x.signal /\ y.owner = x.owner /\ y.status = x.status
        /\ y.held = x.held /\ y.resched = TRUE /\ y.wait[c] = w
        /\ \A t \in Threads \ {c} : y.wait[t] = x.wait[t]
    BY <1>0, <2>1 DEF State
  <2>3. \A t \in Threads : Less(x, y, t)
    BY <2>2 DEF Less, IsSignaled
  <2>4. Good(y)
    <3>1. SignalsWithin(y) /\ MutantsExact(y) /\ HeldWithin(y)
      BY <1>0, <2>2 DEF Good, SignalsWithin, MutantsExact, HeldWithin, Free, Owned
    <3>2. RoomToWait(y, w, c)
      BY <2>2 DEF RoomToWait
    <3>3. \A t \in Threads \ {c} : RoomToWait(y, x.wait[t], t)
      BY <1>0, <2>2 DEF Good, WaitsWithin, RoomToWait
    <3>4. WaitsWithin(y)
      BY <2>2, <3>2, <3>3 DEF WaitsWithin
    <3>. QED
      BY <2>2, <3>1, <3>4 DEF Good
  <2>5. \A t \in Threads \ {c} : Goes(x, y, t)
    BY <2>2, <2>3 DEF Goes, Same
  <2>6. \A t \in Threads \ {c} : Goes(b, y, t)
    BY <1>0, <2>5, StateTyped, GoesOn DEF Walked
  <2>7. ASSUME NEW m \in Mutants PROVE Lent(b, y, m)
    <3>1. Given(b, x, m)
      BY DEF Walked
    <3>2. CASE Kept(b, x, m)
      BY <2>2, <3>2 DEF Lent, Kept
    <3>3. CASE ~Kept(b, x, m)
      <4>1. PICK u \in Threads : b.wait[u] # Runs /\ x.wait[u] = Runs /\ GivenTo(b, x, m, u)
        BY <3>1, <3>3 DEF Given
      <4>2. u # c /\ y.wait[u] = Runs
        BY <2>2, <4>1
      <4>. QED
        BY <2>2, <4>1, <4>2 DEF Lent, GivenTo
    <3>. QED
      BY <3>2, <3>3
  <2>. QED
    BY <2>2, <2>4, <2>6, <2>7 DEF Does, Ready, y
<1>. QED
  BY <1>1, <1>2, <1>3

(***************************************************************************)
(* What a call starts from, what it changes itself, and what is left when  *)
(* the table has been walked for that.                                     *)
(***************************************************************************)
Released(c, b, m) ==
  c \in Threads /\ d.held[m][c] > 0 /\ b.held[m] = [d.held[m] EXCEPT ![c] = @ - 1]

Based(c, b) ==
  /\ Good(b) /\ b.wait = d.wait /\ b.status = NoStatus
  /\ \A m \in Mutants : b.held[m] = d.held[m] \/ Released(c, b, m)

Opens(c, b, x) == Based(c, b) /\ Walked(b, x) /\ Ready(x)

(* The caller, if a thread, runs.                                          *)
Caller(c) == c \in Threads \cup {NoThread} /\ (c \in Threads => d.wait[c] = Runs)

Outcome == \E c, b : Caller(c) /\ Based(c, b) /\ Does(c, b, d') /\ Ready(d')

(* What a call has done when it returns, at any IRQL, is an outcome.       *)
LEMMA Returns ==
  ASSUME NEW c, Caller(c), NEW b, Based(c, b), NEW x, Does(c, b, x), Ready(x),
         NEW late, ReturnAtAnyIrql(x, late)
  PROVE  Outcome
<1>1. Good(b) /\ Good(x)
  BY DEF Based, Does
<1>2. CASE d' = x
  BY <1>2 DEF Outcome
<1>3. CASE d' = Pass(x, late)
  <2>1. Walked(x, d') /\ Ready(d')
    BY <1>1, <1>3, PassServes
  <2>2. Does(c, b, d')
    BY <1>1, <2>1, DoesOn
  <2>. QED
    BY <2>1, <2>2 DEF Outcome
<1>. QED
  BY <1>2, <1>3 DEF ReturnAtAnyIrql

(* Without a wait of the caller's.                                         *)
LEMMA ReturnsOpen ==
  ASSUME NEW c, Caller(c), NEW b, NEW x, Opens(c, b, x), NEW late, ReturnAtAnyIrql(x, late)
  PROVE  Outcome
BY WalkedDoes, Returns DEF Opens

(* With a wait of the caller's.                                            *)
LEMMA ReturnsWaiting ==
  ASSUME NEW c \in Threads, Caller(c), IInv, NEW b, NEW x, Opens(c, b, x),
         NEW w \in Waits, RoomToWait(d, w, c),
         NEW late, ReturnAtAnyIrql(StartWait(x, w, c), late)
  PROVE  Outcome
<1>1. /\ Good(b) /\ b \in State /\ d \in State /\ b.wait[c] = Runs
      /\ Walked(b, x) /\ Ready(x)
  BY DEF Opens, Based, Caller, IInv, Good
<1>2. \A m \in Mutants : x.held[m][c] = b.held[m][c]
  BY <1>1 DEF Walked, Goes, Same, EndsTaking, EndsLate
<1>3. \A m \in Mutants : b.held[m][c] <= d.held[m][c]
  <2>. TAKE m \in Mutants
  <2>1. d.held[m] \in [Threads -> Nat]
    BY <1>1, StateTyped
  <2>2. CASE b.held[m] = d.held[m]
    BY <2>1, <2>2
  <2>3. CASE Released(c, b, m)
    <3>1. b.held[m] = [d.held[m] EXCEPT ![c] = d.held[m][c] - 1]
      BY <2>3 DEF Released
    <3>. QED
      BY <2>1, <3>1
  <2>. QED
    BY <2>2, <2>3 DEF Opens, Based
<1>4. RoomToWait(x, w, c)
  <2>. SUFFICES ASSUME NEW m \in Range(w.objects) \cap Mutants PROVE x.held[m][c] < MaxDepth
    BY DEF RoomToWait
  <2>1. d.held[m][c] < MaxDepth /\ d.held[m][c] \in Nat /\ MaxDepth \in Nat
    BY <1>1, StateTyped, DispatcherAssumption DEF RoomToWait, DispatcherAssumption
  <2>2. b.held[m][c] \in Nat
    BY <1>1, StateTyped
  <2>. QED
    BY <1>2, <1>3, <2>1, <2>2
<1>5. Does(c, b, StartWait(x, w, c)) /\ Ready(StartWait(x, w, c))
  BY <1>1, <1>4, StartWaitDoes
<1>. QED
  BY <1>5, Returns DEF Opens

(* A call begins in the state between calls, the last statuses forgotten.  *)
LEMMA CallIs ==
  ASSUME IInv
  PROVE  /\ Good(Call) /\ Ready(Call)
         /\ Call.wait = d.wait /\ Call.status = NoStatus /\ Call.held = d.held
         /\ Call.signal = d.signal /\ Call.owner = d.owner /\ Call.resched = d.resched
<1>1. d \in State
  BY DEF IInv, Good
<1>2. NoStatus \in [Threads -> Int]
  BY DEF NoStatus
<1>. DEFINE s == Call
<1>3. s = [d EXCEPT !.status = NoStatus]
  BY DEF Call
<1>. HIDE DEF s
<1>4. /\ s \in State
      /\ s.wait = d.wait /\ s.status = NoStatus /\ s.held = d.held
      /\ s.signal = d.signal /\ s.owner = d.owner /\ s.resched = d.resched
  BY <1>1, <1>2, <1>3 DEF State
<1>5. Good(s)
  BY <1>4 DEF IInv, Good, SignalsWithin, MutantsExact, HeldWithin, WaitsWithin, RoomToWait, Free, Owned
<1>6. \A t \in Threads : Less(d, s, t)
  BY <1>4 DEF Less, IsSignaled
<1>7. Ready(s)
  <2>. SUFFICES ASSUME ~s.resched, NEW t \in Threads, s.wait[t] # Runs
                PROVE  ~Satisfied(s, s.wait[t], t)
    BY DEF Ready, NoneMissed, MissesNothing
  <2>1. d.wait[t] \in Waits /\ ~Satisfied(d, d.wait[t], t)
    BY <1>1, <1>4, StateTyped DEF IInv, NoneMissed, MissesNothing
  <2>. QED
    BY <1>4, <1>6, <2>1, LessSatisfied
<1>. QED
  BY <1>4, <1>5, <1>7 DEF s

(* A call that changes nothing.                                            *)
LEMMA OpensCall ==
  ASSUME IInv, NEW c
  PROVE  Opens(c, Call, Call)
BY CallIs, NoStep DEF Opens, Based

(* A signal set by the call itself, of anything but a mutant.              *)
MaySignal(o, n) ==
  /\ o \in Waitables \ Mutants
  /\ IF o \in Semaphores THEN n \in 0 .. Limit[o] ELSE n \in {0, 1}

(* Such a signal keeps the state good, and one taken back is quieter.      *)
LEMMA SignalGood ==
  ASSUME NEW s, Good(s), NEW o, NEW n, MaySignal(o, n), NEW q \in State,
         q.signal = [s.signal EXCEPT ![o] = n], q.owner = s.owner, q.wait = s.wait, q.held = s.held
  PROVE  /\ Good(q)
         /\ n = 0 => \A t \in Threads : Less(s, q, t)
<1>1. /\ s \in State /\ o \in Waitables /\ o \notin Mutants
      /\ q.signal[o] = n /\ \A p \in Waitables \ {o} : q.signal[p] = s.signal[p]
  BY DEF Good, State, MaySignal
<1>2. SignalsWithin(q)
  <2>1. \A p \in Events \cup Timers \cup Threads : p \in Waitables /\ p \notin Semaphores
    BY KindsApart DEF Waitables
  <2>2. \A p \in Semaphores : p \in Waitables
    BY KindsApart DEF Waitables
  <2>. QED
    BY <1>1, <2>1, <2>2 DEF Good, SignalsWithin, MaySignal
<1>3. MutantsExact(q)
  <2>1. \A m \in Mutants : m \in Waitables /\ m # o
    BY <1>1, KindsApart DEF Waitables
  <2>2. \A m \in Mutants : q.signal[m] = s.signal[m]
    BY <1>1, <2>1
  <2>. QED
    BY <2>2 DEF Good, MutantsExact, Free, Owned
<1>4. HeldWithin(q) /\ WaitsWithin(q)
  BY DEF Good, HeldWithin, WaitsWithin, RoomToWait
<1>5. n = 0 => \A t \in Threads : Less(s, q, t)
  BY <1>1 DEF Less, IsSignaled
<1>. QED
  BY <1>2, <1>3, <1>4, <1>5 DEF Good

(* The same of a record with the signal set.                               *)
LEMMA SignalSet ==
  ASSUME NEW s, Good(s), NEW o, NEW n, MaySignal(o, n)
  PROVE  LET b == [s EXCEPT !.signal[o] = n]
         IN /\ Good(b)
            /\ b.wait = s.wait /\ b.status = s.status /\ b.held = s.held
            /\ b.owner = s.owner /\ b.resched = s.resched
            /\ n = 0 => Quieter(s, b)
<1>. DEFINE b == [s EXCEPT !.signal[o] = n]
            signal == [s.signal EXCEPT ![o] = n]
<1>1. s \in State /\ n \in Int
  BY KindsApart DEF Good, MaySignal
<1>2. signal \in [Waitables -> Int]
  BY <1>1 DEF State
<1>3. b = [s EXCEPT !.signal = signal]
  OBVIOUS
<1>. HIDE DEF b, signal
<1>4. /\ b \in State /\ b.signal = signal
      /\ b.wait = s.wait /\ b.status = s.status /\ b.held = s.held
      /\ b.owner = s.owner /\ b.resched = s.resched
  BY <1>1, <1>2, <1>3 DEF State
<1>5. Good(b) /\ (n = 0 => \A t \in Threads : Less(s, b, t))
  BY <1>4, SignalGood DEF signal
<1>. QED
  BY <1>4, <1>5 DEF Quieter, b

(* A signal and the walk it starts.                                        *)
LEMMA OpensSignal ==
  ASSUME IInv, NEW c, NEW o, NEW n, MaySignal(o, n), NEW late
  PROVE  \E b : Opens(c, b, Signal(Call, o, n, late))
<1>. DEFINE b == [Call EXCEPT !.signal[o] = n]
            x == Signal(Call, o, n, late)
<1>0. PICK s : s = Call
  OBVIOUS
<1>1. Good(b) /\ b.wait = Call.wait /\ b.status = Call.status /\ b.held = Call.held
  <2>1. Good(s)
    BY <1>0, CallIs
  <2>2. /\ Good([s EXCEPT !.signal[o] = n])
        /\ [s EXCEPT !.signal[o] = n].wait = s.wait
        /\ [s EXCEPT !.signal[o] = n].status = s.status
        /\ [s EXCEPT !.signal[o] = n].held = s.held
    BY <2>1, SignalSet
  <2>. QED
    BY <1>0, <2>2
<1>2. x = CheckWaits(b, late)
  BY DEF Signal
<1>. HIDE DEF b, x
<1>3. Based(c, b)
  BY <1>1, CallIs DEF Based
<1>4. Walked(b, x) /\ Ready(x)
  BY <1>1, <1>2, WalkServes DEF Ready
<1>. QED
  BY <1>3, <1>4 DEF Opens, x

(* A signal taken back.                                                    *)
LEMMA OpensReset ==
  ASSUME IInv, NEW c, NEW b, NEW x, Opens(c, b, x), NEW o, MaySignal(o, 0)
  PROVE  Opens(c, b, [x EXCEPT !.signal[o] = 0])
<1>. DEFINE y == [x EXCEPT !.signal[o] = 0]
<1>1. Good(b) /\ Good(x) /\ Walked(b, x)
  BY DEF Opens, Based, Walked
<1>2. Quieter(x, y) /\ y.resched = x.resched
  BY <1>1, SignalSet
<1>. HIDE DEF y
<1>3. Walked(x, y)
  BY <1>2, QuieterWalked
<1>4. Walked(b, y)
  BY <1>1, <1>3, WalkedOn
<1>5. Ready(y)
  BY <1>1, <1>2, <1>3, WalkedReady DEF Opens, Ready
<1>. QED
  BY <1>4, <1>5 DEF Opens, y

(* A signal that is left to the next pass: a thread's end, a timer's.      *)
LEMMA OpensLater ==
  ASSUME IInv, NEW c, NEW o, MaySignal(o, 1), NEW b \in State,
         b.signal = [Call.signal EXCEPT ![o] = 1], b.owner = Call.owner, b.wait = Call.wait,
         b.held = Call.held, b.status = Call.status, b.resched = TRUE
  PROVE  Opens(c, b, b)
<1>1. Good(b)
  BY CallIs, SignalGood
<1>. QED
  BY <1>1, CallIs, NoStep DEF Opens, Based, Ready

(* KeReleaseSemaphore, within the limit or refused.                        *)
LEMMA OpensReleaseSemaphore ==
  ASSUME IInv, NEW c, NEW o \in Semaphores, NEW n \in Nat, NEW late
  PROVE  \E b : Opens(c, b, ReleaseSemaphore(Call, o, n, late))
<1>. DEFINE k == Call.signal[o] + n
<1>1. o \in Waitables /\ o \notin Mutants /\ Limit[o] \in Nat
  BY KindsApart DEF Waitables
<1>2. Call.signal[o] \in Nat
  BY <1>1, CallIs DEF Good, SignalsWithin
<1>3. CASE k > Limit[o]
  <2>1. ReleaseSemaphore(Call, o, n, late) = Call
    BY <1>3 DEF ReleaseSemaphore
  <2>. QED
    BY <2>1, OpensCall
<1>4. CASE ~(k > Limit[o])
  <2>1. ReleaseSemaphore(Call, o, n, late) = Signal(Call, o, k, late)
    BY <1>4 DEF ReleaseSemaphore
  <2>2. MaySignal(o, k)
    BY <1>1, <1>2, <1>4 DEF MaySignal
  <2>. QED
    BY <2>1, <2>2, OpensSignal
<1>. QED
  BY <1>3, <1>4

(* KeReleaseMutant by who has it: once less, or free and walked.           *)
LEMMA OpensReleaseMutant ==
  ASSUME IInv, NEW c \in Threads, NEW o \in Mutants, d.held[o][c] > 0, NEW late
  PROVE  \E b : Opens(c, b, ReleaseMutant(Call, o, c, late))
<1>0. PICK s : s = Call
  OBVIOUS
<1>1. /\ Good(s) /\ Ready(s) /\ s \in State
      /\ s.wait = d.wait /\ s.status = NoStatus /\ s.held = d.held
  BY <1>0, CallIs DEF Good
<1>2. /\ o \in Waitables /\ s.signal[o] \in Int /\ s.held[o] \in [Threads -> Nat]
      /\ \A t \in Threads : s.held[o][t] \in Nat
      /\ NoThread \notin Threads
  BY <1>1, StateTyped, ThreadsAssumption
<1>3. /\ Owned(s, o) /\ s.owner[o] = c /\ s.held[o][c] > 0
      /\ s.signal[o] = 1 - s.held[o][c]
      /\ \A t \in Threads \ {c} : s.held[o][t] = 0
  <2>1. Free(s, o) \/ Owned(s, o)
    BY <1>1 DEF Good, MutantsExact
  <2>2. s.held[o][c] > 0
    BY <1>1
  <2>3. Owned(s, o)
    BY <1>2, <2>1, <2>2 DEF Free
  <2>. QED
    BY <1>2, <2>2, <2>3 DEF Owned
<1>. DEFINE signal == [s.signal EXCEPT ![o] = s.signal[o] + 1]
            mine == [s.held[o] EXCEPT ![c] = s.held[o][c] - 1]
            held == [s.held EXCEPT ![o] = mine]
            r == [s EXCEPT !.signal[o] = @ + 1, !.held[o][c] = @ - 1]
<1>4. /\ signal \in [Waitables -> Int] /\ signal[o] = s.signal[o] + 1
      /\ \A p \in Waitables \ {o} : signal[p] = s.signal[p]
  BY <1>1, <1>2 DEF State
<1>5. /\ mine \in [Threads -> Nat] /\ mine[c] = s.held[o][c] - 1
      /\ \A t \in Threads \ {c} : mine[t] = s.held[o][t]
  BY <1>2, <1>3
<1>6. /\ held \in [Mutants -> [Threads -> Nat]] /\ held[o] = mine
      /\ \A m \in Mutants \ {o} : held[m] = s.held[m]
  <2>. HIDE DEF mine
  <2>. QED
    BY <1>1, <1>5 DEF State
<1>7. r = [s EXCEPT !.signal = signal, !.held = held]
  OBVIOUS
<1>. HIDE DEF signal, held, r
<1>8. /\ r \in State /\ r.signal = signal /\ r.held = held
      /\ r.owner = s.owner /\ r.wait = s.wait /\ r.status = s.status /\ r.resched = s.resched
  BY <1>1, <1>4, <1>6, <1>7 DEF State
<1>9. mine = [d.held[o] EXCEPT ![c] = @ - 1]
  BY <1>1
<1>. HIDE DEF mine
(* r, or r with the mutant free, is a state to go on from.                 *)
<1>10. ASSUME NEW b \in State, b.signal = signal, b.held = held, b.wait = s.wait,
              b.status = s.status, \A m \in Mutants \ {o} : b.owner[m] = s.owner[m],
              Free(b, o) \/ Owned(b, o)
       PROVE  Based(c, b)
  <2>1. SignalsWithin(b)
    <3>1. \A p \in Events \cup Timers \cup Threads \cup Semaphores : p \in Waitables \ {o}
      BY KindsApart DEF Waitables
    <3>2. \A p \in Events \cup Timers \cup Threads \cup Semaphores : b.signal[p] = s.signal[p]
      BY <1>4, <1>10, <3>1
    <3>. QED
      BY <1>1, <3>2 DEF Good, SignalsWithin
  <2>2. MutantsExact(b)
    <3>1. ASSUME NEW m \in Mutants \ {o} PROVE Free(b, m) \/ Owned(b, m)
      <4>1. m \in Waitables \ {o}
        BY KindsApart DEF Waitables
      <4>2. b.signal[m] = s.signal[m] /\ b.held[m] = s.held[m] /\ b.owner[m] = s.owner[m]
        BY <1>4, <1>6, <1>10, <4>1
      <4>3. Free(s, m) \/ Owned(s, m)
        BY <1>1 DEF Good, MutantsExact
      <4>. QED
        BY <4>2, <4>3 DEF Free, Owned
    <3>. QED
      BY <1>10, <3>1 DEF MutantsExact
  <2>3. \A m \in Mutants, t \in Threads : b.held[m][t] \in Nat /\ b.held[m][t] <= s.held[m][t]
    <3>. TAKE m \in Mutants, t \in Threads
    <3>1. s.held[m][t] \in Nat
      BY <1>1, StateTyped
    <3>. QED
      BY <1>2, <1>5, <1>6, <1>10, <3>1
  <2>4. \A m \in Mutants, t \in Threads : s.held[m][t] \in Nat /\ MaxDepth \in Nat
    BY <1>1, StateTyped, DispatcherAssumption DEF DispatcherAssumption
  <2>5. HeldWithin(b)
    BY <1>1, <2>3, <2>4 DEF Good, HeldWithin
  <2>6. WaitsWithin(b)
    <3>. SUFFICES ASSUME NEW t \in Threads, NEW m \in Range(s.wait[t].objects) \cap Mutants
                  PROVE  b.held[m][t] < MaxDepth
      BY <1>10 DEF WaitsWithin, RoomToWait
    <3>1. s.held[m][t] < MaxDepth
      BY <1>1 DEF Good, WaitsWithin, RoomToWait
    <3>. QED
      BY <2>3, <2>4, <3>1
  <2>7. Good(b)
    BY <1>10, <2>1, <2>2, <2>5, <2>6 DEF Good
  <2>8. Released(c, b, o)
    BY <1>6, <1>9, <1>10 DEF Released
  <2>9. \A m \in Mutants \ {o} : b.held[m] = d.held[m]
    BY <1>1, <1>6, <1>10
  <2>. QED
    BY <1>1, <1>10, <2>7, <2>8, <2>9 DEF Based
<1>11. CASE r.signal[o] > 0
  <2>. DEFINE owner == [s.owner EXCEPT ![o] = NoThread]
              b == [r EXCEPT !.owner[o] = NoThread]
  <2>1. ReleaseMutant(s, o, c, late) = CheckWaits(b, late)
    BY <1>11 DEF ReleaseMutant, r
  <2>2. /\ owner \in [Mutants -> Threads \cup {NoThread}] /\ owner[o] = NoThread
        /\ \A m \in Mutants \ {o} : owner[m] = s.owner[m]
    BY <1>1 DEF State
  <2>3. b = [r EXCEPT !.owner = owner]
    BY <1>8
  <2>. HIDE DEF owner, b
  <2>4. /\ b \in State /\ b.signal = signal /\ b.held = held /\ b.owner = owner
        /\ b.wait = s.wait /\ b.status = s.status
    BY <1>8, <2>2, <2>3 DEF State
  <2>5. Free(b, o)
    <3>1. s.held[o][c] = 1 /\ b.signal[o] = 1
      BY <1>2, <1>3, <1>4, <1>8, <1>11, <2>4
    <3>2. \A t \in Threads : b.held[o][t] = 0
      BY <1>3, <1>5, <1>6, <2>4, <3>1
    <3>. QED
      BY <2>2, <2>4, <3>1, <3>2 DEF Free
  <2>6. Based(c, b)
    BY <1>10, <2>2, <2>4, <2>5
  <2>7. Walked(b, CheckWaits(b, late)) /\ NoneMissed(CheckWaits(b, late))
    BY <2>6, WalkServes DEF Based
  <2>. QED
    BY <1>0, <2>1, <2>6, <2>7 DEF Opens, Ready
<1>12. CASE ~(r.signal[o] > 0)
  <2>1. ReleaseMutant(s, o, c, late) = r
    BY <1>12 DEF ReleaseMutant, r
  <2>2. Owned(r, o)
    <3>1. mine[c] > 0 /\ r.signal[o] = 1 - mine[c]
      BY <1>2, <1>3, <1>4, <1>5, <1>8, <1>12
    <3>2. \A t \in Threads : r.held[o][t] > 0 <=> t = c
      BY <1>3, <1>5, <1>6, <1>8, <3>1
    <3>3. r.owner[o] = c /\ r.held[o][c] = mine[c]
      BY <1>3, <1>6, <1>8
    <3>. QED
      BY <3>1, <3>2, <3>3 DEF Owned
  <2>3. Based(c, r)
    BY <1>8, <1>10, <2>2
  <2>4. Ready(r)
    <3>. SUFFICES ASSUME ~r.resched, NEW t \in Threads, r.wait[t] # Runs
                  PROVE  ~Satisfied(r, r.wait[t], t)
      BY DEF Ready, NoneMissed, MissesNothing
    <3>1. r.wait[t] \in Waits /\ ~Satisfied(s, r.wait[t], t)
      BY <1>1, <1>8, StateTyped DEF Ready, NoneMissed, MissesNothing
    <3>2. Less(s, r, t)
      <4>. SUFFICES ASSUME NEW p \in Waitables, IsSignaled(r, p, t) PROVE IsSignaled(s, p, t)
        BY DEF Less
      <4>1. CASE p = o
        BY <1>8, <1>12, <4>1 DEF IsSignaled
      <4>2. CASE p # o
        BY <1>4, <1>8, <4>2 DEF IsSignaled
      <4>. QED
        BY <4>1, <4>2
    <3>. QED
      BY <3>1, <3>2, LessSatisfied
  <2>. QED
    BY <1>0, <2>1, <2>3, <2>4, NoStep DEF Opens, Based
<1>. QED
  BY <1>11, <1>12

(***************************************************************************)
(* The calls.                                                              *)
(***************************************************************************)
LEMMA NoCaller == Caller(NoThread)
  BY ThreadsAssumption DEF Caller

(* A thread that calls does not wait.                                      *)
LEMMA MayCallCaller ==
  ASSUME IInv, NEW t \in Threads, MayCall(t)
  PROVE  Caller(t)
  BY DEF MayCall, Waiting, Caller

(* A return below DISPATCH_LEVEL is one of those at any IRQL.              *)
LEMMA ReturnAny ==
  ASSUME NEW x, NEW late, Return(x, late)
  PROVE  ReturnAtAnyIrql(x, late)
  BY DEF Return, ReturnAtAnyIrql

(* Each action is an outcome.                                              *)
LEMMA KeWaitDoes ==
  ASSUME IInv, NEW t \in Threads, NEW w \in Waits, KeWait(t, w)
  PROVE  Outcome
<1>1. PICK late \in Late : ReturnAtAnyIrql(StartWait(Call, w, t), late)
  BY ReturnAny DEF KeWait
<1>2. Caller(t) /\ RoomToWait(d, w, t)
  BY MayCallCaller DEF KeWait, MayWait, RoomToWait
<1>3. Opens(t, Call, Call)
  BY OpensCall
<1>. QED
  BY <1>1, <1>2, <1>3, ReturnsWaiting

(* Events, timers and threads may be set and reset.                        *)
LEMMA EventKinds ==
  /\ \A o \in Events \cup Timers \cup Threads : MaySignal(o, 0) /\ MaySignal(o, 1)
  BY KindsApart DEF MaySignal, Waitables

LEMMA KeSetEventDoes ==
  ASSUME IInv, NEW e \in Events, KeSetEvent(e)
  PROVE  Outcome
<1>1. PICK late \in Late : ReturnAtAnyIrql(SetEvent(Call, e, late), late)
  BY DEF KeSetEvent
<1>2. PICK b : Opens(NoThread, b, SetEvent(Call, e, late))
  BY EventKinds, OpensSignal DEF SetEvent
<1>. QED
  BY <1>1, <1>2, NoCaller, ReturnsOpen

LEMMA KeResetEventDoes ==
  ASSUME IInv, NEW e \in Events, KeResetEvent(e)
  PROVE  Outcome
<1>1. PICK late \in Late : ReturnAtAnyIrql([Call EXCEPT !.signal[e] = 0], late)
  BY DEF KeResetEvent
<1>2. Opens(NoThread, Call, [Call EXCEPT !.signal[e] = 0])
  BY EventKinds, OpensCall, OpensReset
<1>. QED
  BY <1>1, <1>2, NoCaller, ReturnsOpen

LEMMA KePulseEventDoes ==
  ASSUME IInv, NEW e \in Events, KePulseEvent(e)
  PROVE  Outcome
<1>1. PICK late \in Late : ReturnAtAnyIrql([SetEvent(Call, e, late) EXCEPT !.signal[e] = 0], late)
  BY DEF KePulseEvent
<1>2. PICK b : Opens(NoThread, b, SetEvent(Call, e, late))
  BY EventKinds, OpensSignal DEF SetEvent
<1>3. Opens(NoThread, b, [SetEvent(Call, e, late) EXCEPT !.signal[e] = 0])
  BY <1>2, EventKinds, OpensReset
<1>. QED
  BY <1>1, <1>3, NoCaller, ReturnsOpen

LEMMA KeReleaseSemaphoreDoes ==
  ASSUME IInv, NEW o \in Semaphores, NEW n \in 1 .. 2, KeReleaseSemaphore(o, n)
  PROVE  Outcome
<1>1. PICK late \in Late : ReturnAtAnyIrql(ReleaseSemaphore(Call, o, n, late), late)
  BY DEF KeReleaseSemaphore
<1>2. PICK b : Opens(NoThread, b, ReleaseSemaphore(Call, o, n, late))
  BY OpensReleaseSemaphore
<1>. QED
  BY <1>1, <1>2, NoCaller, ReturnsOpen

LEMMA KeReleaseMutantDoes ==
  ASSUME IInv, NEW t \in Threads, NEW m \in Mutants, KeReleaseMutant(t, m)
  PROVE  Outcome
<1>1. PICK late \in Late : ReturnAtAnyIrql(ReleaseMutant(Call, m, t, late), late)
  BY DEF KeReleaseMutant
<1>2. PICK b : Opens(t, b, ReleaseMutant(Call, m, t, late))
  BY OpensReleaseMutant DEF KeReleaseMutant
<1>3. Caller(t)
  BY MayCallCaller DEF KeReleaseMutant
<1>. QED
  BY <1>1, <1>2, <1>3, ReturnsOpen

LEMMA SignalAndWaitDoes ==
  ASSUME IInv, NEW t \in Threads, NEW o \in Objects, NEW w \in Waits,
         NtSignalAndWaitForSingleObjectEx(t, o, w)
  PROVE  Outcome
<1>1. Caller(t) /\ RoomToWait(d, w, t)
  BY MayCallCaller DEF NtSignalAndWaitForSingleObjectEx, MayWait, RoomToWait
<1>2. PICK late \in Late :
        \/ o \in Events /\ Return(StartWait(SetEvent(Call, o, late), w, t), late)
        \/ o \in Semaphores /\ Return(StartWait(ReleaseSemaphore(Call, o, 1, late), w, t), late)
        \/ /\ o \in Mutants /\ d.held[o][t] > 0
           /\ Return(StartWait(ReleaseMutant(Call, o, t, late), w, t), late)
  BY DEF NtSignalAndWaitForSingleObjectEx
<1>3. CASE o \in Events /\ Return(StartWait(SetEvent(Call, o, late), w, t), late)
  <2>1. \E b : Opens(t, b, SetEvent(Call, o, late))
    BY <1>3, EventKinds, OpensSignal DEF SetEvent
  <2>. QED
    BY <1>1, <1>3, <2>1, ReturnAny, ReturnsWaiting
<1>4. CASE o \in Semaphores /\ Return(StartWait(ReleaseSemaphore(Call, o, 1, late), w, t), late)
  <2>1. \E b : Opens(t, b, ReleaseSemaphore(Call, o, 1, late))
    BY <1>4, OpensReleaseSemaphore
  <2>. QED
    BY <1>1, <1>4, <2>1, ReturnAny, ReturnsWaiting
<1>5. CASE /\ o \in Mutants /\ d.held[o][t] > 0
           /\ Return(StartWait(ReleaseMutant(Call, o, t, late), w, t), late)
  <2>1. \E b : Opens(t, b, ReleaseMutant(Call, o, t, late))
    BY <1>5, OpensReleaseMutant
  <2>. QED
    BY <1>1, <1>5, <2>1, ReturnAny, ReturnsWaiting
<1>. QED
  BY <1>2, <1>3, <1>4, <1>5

(* Setting a signal keeps the type.                                        *)
LEMMA SignalTyped ==
  ASSUME NEW D, NEW f \in [D -> Int], NEW o, NEW n \in Int
  PROVE  [f EXCEPT ![o] = n] \in [D -> Int]
  OBVIOUS

LEMMA TerminateDoes ==
  ASSUME IInv, NEW t \in Threads, PsTerminateSystemThread(t)
  PROVE  Outcome
<1>. DEFINE signal == [Call.signal EXCEPT ![t] = 1]
            ended == Call.ended \cup {t}
            b == [Call EXCEPT !.signal[t] = 1, !.ended = @ \cup {t}, !.resched = TRUE]
<1>1. PICK late \in Late : ReturnAtAnyIrql(b, late)
  BY ReturnAny DEF PsTerminateSystemThread
<1>2. b = [Call EXCEPT !.signal = signal, !.ended = ended, !.resched = TRUE]
  OBVIOUS
<1>3. Call \in State
  BY CallIs DEF Good
<1>4. signal \in [Waitables -> Int] /\ ended \in SUBSET Threads
  <2>1. Call.signal \in [Waitables -> Int] /\ Call.ended \in SUBSET Threads
    BY <1>3 DEF State
  <2>2. signal \in [Waitables -> Int]
    BY <2>1, SignalTyped
  <2>3. ended \in SUBSET Threads
    BY <2>1
  <2>. QED
    BY <2>2, <2>3
<1>. HIDE DEF b, signal, ended
<1>5. /\ b \in State /\ b.signal = signal /\ b.owner = Call.owner /\ b.wait = Call.wait
      /\ b.held = Call.held /\ b.status = Call.status /\ b.resched = TRUE
  BY <1>2, <1>3, <1>4 DEF State
<1>6. Opens(NoThread, b, b)
  BY <1>5, EventKinds, OpensLater DEF signal
<1>. QED
  BY <1>1, <1>6, NoCaller, ReturnsOpen

LEMMA TimerFiresDoes ==
  ASSUME IInv, NEW o \in Timers, TimerFires(o)
  PROVE  Outcome
<1>. DEFINE signal == [Call.signal EXCEPT ![o] = 1]
            b == [Call EXCEPT !.signal[o] = 1, !.resched = TRUE]
<1>1. PICK late \in Late : ReturnAtAnyIrql(b, late)
  BY DEF TimerFires
<1>2. b = [Call EXCEPT !.signal = signal, !.resched = TRUE]
  OBVIOUS
<1>3. Call \in State
  BY CallIs DEF Good
<1>4. signal \in [Waitables -> Int]
  BY <1>3, SignalTyped DEF State
<1>. HIDE DEF b, signal
<1>5. /\ b \in State /\ b.signal = signal /\ b.owner = Call.owner /\ b.wait = Call.wait
      /\ b.held = Call.held /\ b.status = Call.status /\ b.resched = TRUE
  BY <1>2, <1>3, <1>4 DEF State
<1>6. Opens(NoThread, b, b)
  BY <1>5, EventKinds, OpensLater DEF signal
<1>. QED
  BY <1>1, <1>6, NoCaller, ReturnsOpen

LEMMA KeSetTimerDoes ==
  ASSUME IInv, NEW o \in Timers, KeSetTimer(o)
  PROVE  Outcome
<1>1. PICK late \in Late : ReturnAtAnyIrql([Call EXCEPT !.signal[o] = 0], late)
  BY DEF KeSetTimer
<1>2. Opens(NoThread, Call, [Call EXCEPT !.signal[o] = 0])
  BY EventKinds, OpensCall, OpensReset
<1>. QED
  BY <1>1, <1>2, NoCaller, ReturnsOpen

LEMMA ClockTickDoes ==
  ASSUME IInv, ClockTick
  PROVE  Outcome
<1>1. PICK late \in Late : ReturnAtAnyIrql(CheckWaits(Call, late), late)
  BY DEF ClockTick
<1>2. Walked(Call, CheckWaits(Call, late)) /\ Ready(CheckWaits(Call, late))
  BY CallIs, WalkServes DEF Ready
<1>3. Opens(NoThread, Call, CheckWaits(Call, late))
  BY <1>2, CallIs DEF Opens, Based
<1>. QED
  BY <1>1, <1>3, NoCaller, ReturnsOpen

(* All of them.                                                            *)
LEMMA NextDoes == IInv /\ Next => Outcome
BY KeWaitDoes, SignalAndWaitDoes, KeReleaseMutantDoes, TerminateDoes, KeSetEventDoes,
   KeResetEventDoes, KePulseEventDoes, KeReleaseSemaphoreDoes, TimerFiresDoes, KeSetTimerDoes,
   ClockTickDoes
   DEF Next

(***************************************************************************)
(* The invariant.                                                          *)
(***************************************************************************)
LEMMA Initially == Init => IInv
<1>. SUFFICES ASSUME Init PROVE IInv
  OBVIOUS
<1>. DEFINE signal == [o \in Objects \cup Threads |-> IF o \in Mutants THEN 1 ELSE 0]
            owner == [m \in Mutants |-> NoThread]
            wait == [t \in Threads |-> Runs]
            held == [m \in Mutants |-> [t \in Threads |-> 0]]
<1>1. /\ signal \in [Waitables -> Int]
      /\ \A o \in Waitables : signal[o] = IF o \in Mutants THEN 1 ELSE 0
  BY DEF Waitables
<1>2. owner \in [Mutants -> Threads \cup {NoThread}] /\ \A m \in Mutants : owner[m] = NoThread
  OBVIOUS
<1>3. wait \in [Threads -> Waits \cup {Runs}] /\ \A t \in Threads : wait[t] = Runs
  OBVIOUS
<1>4. /\ held \in [Mutants -> [Threads -> Nat]]
      /\ \A m \in Mutants, t \in Threads : held[m][t] = 0
  OBVIOUS
<1>5. NoStatus \in [Threads -> Int]
  BY DEF NoStatus
<1>6. d = [signal |-> signal, owner |-> owner, wait |-> wait, status |-> NoStatus, ended |-> {},
           resched |-> FALSE, held |-> held]
  BY DEF Init
<1>. HIDE DEF signal, owner, wait, held
<1>7. /\ d \in State /\ d.signal = signal /\ d.owner = owner /\ d.wait = wait /\ d.held = held
  BY <1>1, <1>2, <1>3, <1>4, <1>5, <1>6 DEF State
<1>8. SignalsWithin(d)
  <2>1. \A o \in Events \cup Timers \cup Threads \cup Semaphores :
          o \in Waitables /\ o \notin Mutants
    BY KindsApart DEF Waitables
  <2>2. \A o \in Semaphores : Limit[o] \in Nat
    BY KindsApart
  <2>. QED
    BY <1>1, <1>7, <2>1, <2>2 DEF SignalsWithin
<1>9. MutantsExact(d)
  <2>1. \A m \in Mutants : m \in Waitables
    BY KindsApart DEF Waitables
  <2>. QED
    BY <1>1, <1>2, <1>4, <1>7, <2>1 DEF MutantsExact, Free
<1>10. HeldWithin(d) /\ WaitsWithin(d)
  <2>1. MaxDepth \in Nat /\ MaxDepth > 0
    BY DispatcherAssumption DEF DispatcherAssumption
  <2>. QED
    BY <1>4, <1>7, <2>1 DEF HeldWithin, WaitsWithin, RoomToWait
<1>11. NoneMissed(d)
  BY <1>3, <1>7 DEF NoneMissed, MissesNothing
<1>. QED
  BY <1>7, <1>8, <1>9, <1>10, <1>11 DEF IInv, Good

(* The invariant is inductive: an outcome keeps the state good and ready.  *)
LEMMA NextStep == IInv /\ [Next]_d => IInv'
<1>1. ASSUME IInv, Next PROVE IInv'
  <2>1. Good(d') /\ Ready(d')
    BY <1>1, NextDoes DEF Outcome, Does
  <2>. QED
    BY <2>1 DEF IInv, Ready
<1>2. ASSUME IInv, UNCHANGED d PROVE IInv'
  BY <1>2 DEF IInv
<1>. QED
  BY <1>1, <1>2

(***************************************************************************)
(* What a step of the program does to a thread that waits, and to a mutant. *)
(***************************************************************************)
LEMMA WaitGoes ==
  ASSUME IInv, Next, NEW t \in Waiting(d)
  PROVE  /\ t \in Threads /\ d.wait[t] \in Waits
         /\ \/ /\ ~Ends(t)
               /\ \A m \in Mutants : d'.held[m][t] = d.held[m][t]
            \/ /\ Ends(t) /\ d'.status[t] \in DOMAIN d.wait[t].objects
               /\ \A m \in Mutants :
                    d'.held[m][t] = IF m \in Taken(d.wait[t], d'.status[t])
                                      THEN d.held[m][t] + 1 ELSE d.held[m][t]
            \/ /\ Ends(t) /\ d'.status[t] \notin DOMAIN d.wait[t].objects
               /\ \A m \in Mutants : d'.held[m][t] = d.held[m][t]
               /\ ~Satisfied(d', d.wait[t], t)
<1>1. t \in Threads /\ d.wait[t] # Runs /\ d.wait[t] \in Waits
  BY StateTyped DEF Waiting, IInv, Good
<1>2. PICK c, b : Caller(c) /\ Based(c, b) /\ Does(c, b, d')
  BY NextDoes DEF Outcome
<1>3. t # c
  BY <1>1, <1>2, ThreadsAssumption DEF Caller
<1>4. Goes(b, d', t) /\ b.wait[t] = d.wait[t]
  BY <1>1, <1>2, <1>3 DEF Does, Based
<1>5. \A m \in Mutants : b.held[m][t] = d.held[m][t]
  <2>. TAKE m \in Mutants
  <2>1. d.held[m] \in [Threads -> Nat]
    BY StateTyped DEF IInv, Good
  <2>2. CASE Released(c, b, m)
    BY <1>1, <1>3, <2>1, <2>2 DEF Released
  <2>. QED
    BY <1>2, <2>2 DEF Based
<1>6. CASE Same(b, d', t)
  BY <1>1, <1>4, <1>5, <1>6 DEF Same, Ends
<1>7. CASE EndsTaking(b, d', t)
  BY <1>1, <1>4, <1>5, <1>7 DEF EndsTaking, Ends
<1>8. CASE EndsLate(b, d', t)
  BY <1>1, <1>4, <1>5, <1>8 DEF EndsLate, Ends
<1>. QED
  BY <1>1, <1>4, <1>6, <1>7, <1>8 DEF Goes

(* A wait that reports a timeout took nothing and could take nothing.      *)
LEMMA TimeoutLosesStep ==
  ASSUME IInv, Next, NEW t \in Threads, Ends(t), d'.status[t] = STATUS_TIMEOUT
  PROVE  ~Satisfied(d', d.wait[t], t)
<1>1. t \in Waiting(d)
  BY DEF Ends, Waiting
<1>2. d.wait[t] \in Waits
  BY <1>1, WaitGoes
<1>3. STATUS_TIMEOUT \notin DOMAIN d.wait[t].objects
  <2>1. DOMAIN d.wait[t].objects \subseteq Nat
    BY <1>2, WaitsTyped
  <2>2. STATUS_TIMEOUT \notin Nat
    BY DEF STATUS_TIMEOUT
  <2>. QED
    BY <2>1, <2>2
<1>. QED
  BY <1>1, <1>3, WaitGoes

(* What a wait reports is what its thread has more.                        *)
LEMMA TakesStep ==
  ASSUME IInv, Next, NEW t \in Waiting(d), NEW m \in Mutants
  PROVE  d'.held[m][t] = d.held[m][t] + (IF m \in Reported(t) THEN 1 ELSE 0)
<1>1. t \in Threads /\ d.held[m][t] \in Nat
  BY StateTyped DEF Waiting, IInv, Good
<1>2. CASE ~Ends(t)
  <2>1. Reported(t) = {} /\ d'.held[m][t] = d.held[m][t]
    BY <1>2, WaitGoes DEF Reported
  <2>. QED
    BY <1>1, <2>1
<1>3. CASE Ends(t) /\ d'.status[t] \in DOMAIN d.wait[t].objects
  <2>1. /\ Reported(t) = Taken(d.wait[t], d'.status[t])
        /\ d'.held[m][t] = IF m \in Taken(d.wait[t], d'.status[t])
                             THEN d.held[m][t] + 1 ELSE d.held[m][t]
    BY <1>3, WaitGoes DEF Reported
  <2>. QED
    BY <1>1, <2>1
<1>4. CASE Ends(t) /\ d'.status[t] \notin DOMAIN d.wait[t].objects
  <2>1. Reported(t) = {} /\ d'.held[m][t] = d.held[m][t]
    BY <1>4, WaitGoes DEF Reported
  <2>. QED
    BY <1>1, <2>1
<1>. QED
  BY <1>2, <1>3, <1>4

(* Whoever is given a mutant is the only one to have it.                   *)
LEMMA GivenAlone ==
  ASSUME NEW b, Good(b), NEW q, NEW m \in Mutants, NEW u \in Threads, GivenTo(b, q, m, u)
  PROVE  \A t \in Threads \ {u} : b.held[m][t] = 0
<1>1. /\ Free(b, m) \/ Owned(b, m)
      /\ \A t \in Threads : b.held[m][t] \in Nat
  BY StateTyped DEF Good, MutantsExact
<1>. QED
  BY <1>1, ThreadsAssumption DEF Free, Owned, GivenTo

(* What a step does to a mutant is a step of the lock.                     *)
LEMMA LockStep ==
  ASSUME IInv, Next, NEW m \in Mutants
  PROVE  Lock(m)!Next \/ UNCHANGED d.held[m]
<1>1. PICK c, b : Caller(c) /\ Based(c, b) /\ Does(c, b, d')
  BY NextDoes DEF Outcome
<1>2. d.held[m] \in [Threads -> Nat] /\ b.held[m] \in [Threads -> Nat] /\ Good(b)
  BY <1>1, StateTyped DEF IInv, Good, Based
<1>3. Lent(b, d', m)
  BY <1>1 DEF Does
<1>4. CASE b.held[m] = d.held[m]
  <2>1. CASE Kept(b, d', m)
    BY <1>4, <2>1 DEF Kept
  <2>2. CASE ~Kept(b, d', m)
    <3>1. PICK u \in Threads : GivenTo(b, d', m, u)
      BY <1>3, <2>2 DEF Lent
    <3>2. \A t \in Threads \ {u} : d.held[m][t] = 0
      BY <1>2, <1>4, <3>1, GivenAlone
    <3>3. d.held[m]' = [d.held[m] EXCEPT ![u] = @ + 1]
      BY <1>4, <3>1 DEF GivenTo
    <3>4. Lock(m)!Acquire(u)
      BY <3>2, <3>3 DEF Lock!Acquire
    <3>. QED
      BY <3>4 DEF Lock!Next
  <2>. QED
    BY <2>1, <2>2
<1>5. CASE Released(c, b, m)
  <2>1. c \in Threads /\ d.held[m][c] > 0 /\ b.held[m] = [d.held[m] EXCEPT ![c] = @ - 1]
    BY <1>5 DEF Released
  <2>2. CASE Kept(b, d', m)
    <3>1. Lock(m)!Release(c)
      BY <2>1, <2>2 DEF Lock!Release, Kept
    <3>. QED
      BY <2>1, <3>1 DEF Lock!Next
  <2>3. CASE ~Kept(b, d', m)
    <3>1. PICK u \in Threads : GivenTo(b, d', m, u)
      BY <1>3, <2>3 DEF Lent
    <3>2. \A t \in Threads \ {u} : b.held[m][t] = 0
      BY <1>2, <3>1, GivenAlone
    <3>3. d'.held[m] = [b.held[m] EXCEPT ![u] = @ + 1]
      BY <3>1 DEF GivenTo
    <3>4. CASE u = c
      <4>1. d'.held[m] = d.held[m]
        BY <1>2, <2>1, <3>3, <3>4
      <4>. QED
        BY <4>1
    <3>5. CASE u # c
      <4>1. b.held[m][c] = 0 /\ b.held[m][c] = d.held[m][c] - 1
        BY <1>2, <2>1, <3>2, <3>5
      <4>2. d.held[m][c] = 1
        BY <1>2, <2>1, <4>1
      <4>3. d.held[m][u] = 0
        <5>1. Free(d, m) \/ Owned(d, m)
          BY DEF IInv, Good, MutantsExact
        <5>. QED
          BY <1>2, <2>1, <3>5, <5>1 DEF Free, Owned
      <4>4. d'.held[m] = [d.held[m] EXCEPT ![c] = 0, ![u] = 1]
        BY <1>2, <2>1, <3>3, <3>5, <4>2, <4>3
      <4>5. Lock(m)!HandOver(c, u)
        BY <3>5, <4>2, <4>3, <4>4 DEF Lock!HandOver
      <4>. QED
        BY <2>1, <4>5 DEF Lock!Next
    <3>. QED
      BY <3>4, <3>5
  <2>. QED
    BY <2>2, <2>3
<1>. QED
  BY <1>1, <1>4, <1>5 DEF Based

(***************************************************************************)
(* The theorems.                                                           *)
(***************************************************************************)

(* The inductive invariant.                                                *)
THEOREM Invariant == Spec => []IInv
BY Initially, NextStep, PTL DEF Spec

(* Signals, waits and the fields of each mutant, whatever is waited for,   *)
(* released and handed over (ke.c).                                        *)
THEOREM TypesOK == Spec => []TypeOK
<1>1. IInv => TypeOK
  <2>. SUFFICES ASSUME IInv PROVE TypeOK
    OBVIOUS
  <2>1. d \in State /\ SignalsWithin(d) /\ MutantsExact(d) /\ HeldWithin(d)
    BY DEF IInv, Good
  <2>2. d.held \in [Mutants -> [Threads -> 0 .. MaxDepth]]
    <3>1. \A m \in Mutants, t \in Threads : d.held[m][t] \in 0 .. MaxDepth
      BY <2>1, StateTyped, DispatcherAssumption DEF HeldWithin, DispatcherAssumption
    <3>. QED
      BY <2>1, <3>1 DEF State
  <2>. QED
    BY <2>1, <2>2 DEF TypeOK, State, SignalsWithin, MutantsExact, Free, Owned
<1>. QED
  BY <1>1, Invariant, PTL

(* Nobody waits for what is there, at the latest after the pass that is    *)
(* due (nc_ke_check_waits, sysop).                                         *)
THEOREM NoWaitMissed == Spec => []NoMissedWait
<1>1. IInv => NoMissedWait
  BY DEF IInv, NoMissedWait, NoneMissed, MissesNothing, Waiting
<1>. QED
  BY <1>1, Invariant, PTL

(* A wait that times out is one that nothing could have ended.             *)
THEOREM TimeoutLoses == Spec => TimeoutLosesToSignal
<1>1. IInv /\ [Next]_d =>
        [\A t \in Threads : Ends(t) /\ d'.status[t] = STATUS_TIMEOUT
                              => ~Satisfied(d', d.wait[t], t)]_d
  BY TimeoutLosesStep
<1>. QED
  BY <1>1, Invariant, PTL DEF Spec, TimeoutLosesToSignal

(* A wait takes what it reports: all of its objects at once, or one.       *)
THEOREM TakesReported == Spec => TakesWhatItReports
<1>1. IInv /\ [Next]_d =>
        [\A t \in Waiting(d), m \in Mutants :
           d'.held[m][t] = d.held[m][t] + (IF m \in Reported(t) THEN 1 ELSE 0)]_d
  BY TakesStep
<1>. QED
  BY <1>1, Invariant, PTL DEF Spec, TakesWhatItReports

(* Each mutant is a lock, that one thread at a time has and that is handed *)
(* over to one that waits.                                                 *)
THEOREM LocksImplemented == Spec => MutantsAreLocks
<1>1. Init => \A m \in Mutants : Lock(m)!Init
  BY DEF Init, Lock!Init
<1>2. IInv /\ [Next]_d => [\A m \in Mutants : Lock(m)!Next \/ UNCHANGED d.held[m]]_d
  BY LockStep
<1>. QED
  BY <1>1, <1>2, Invariant, PTL DEF Spec, MutantsAreLocks
=============================================================================
